---- MODULE Spec2Model ----
(***************************************************************************)
(* A model of the entity factory engine of typeorm-factories               *)
(* (src/src/factory.util.ts): the factory registry, the per-entity         *)
(* sequence counters, the definition builder and the make()/makeMany()     *)
(* pipeline of EntityFactory.                                              *)
(*                                                                         *)
(* An asynchronous call is a stack of frames; every await of the source is *)
(* a point where the frame on top of the stack stops and a later action    *)
(* resumes it.  The synchronous start of make() (the draw of the sequence  *)
(* number and the call of the generator) belongs to the action that calls  *)
(* make().                                                                 *)
(***************************************************************************)
EXTENDS Integers, Sequences, FiniteSets, TLC

VARIABLES
    entityFactories,  \* Map<string, EntityFactoryDefinition>: name -> index in defs
    sequences,        \* Map<string, number>: name -> counter
    defs,             \* the EntityFactoryDefinition objects ever created
    facs,             \* the EntityFactory objects the client holds
    tasks,            \* the asynchronous calls in flight, each a stack of frames
    called            \* the last call of the client and the error it threw

vars == <<entityFactories, sequences, defs, facs, tasks, called>>

-----------------------------------------------------------------------------
(* Bounds of the model                                                     *)

MaxDefs == 3      \* definition objects ever created by define()
MaxHooks == 2     \* hooks in one hook list of a definition
MaxAssocs == 2    \* association declarations of a definition
MaxActive == 2    \* names in the activation list of an EntityFactory
MaxAmount == 3    \* the amount passed to makeMany by the client
MaxSeq == 2       \* a client starts no production for a counter at MaxSeq
MaxDepth == 4     \* frames on the stack of one asynchronous call

(* The client keeps one EntityFactory at a time. *)
Slots == {1}

-----------------------------------------------------------------------------
(* The inputs of the client: entity classes and user-supplied functions    *)

Classes == {[name |-> "User"], [name |-> "Post"]}

GenFns == {"g1", "g2"}
HookFns == {"h1", "h2"}
StateNames == {"admin", "verified"}
StatePairs == {<<"admin", "mkAdmin">>, <<"verified", "mkVerified">>}
MapFns == {"m1"}

NoError == <<>>

(* The last call of the client: its name, its arguments (for              *)
(* resetSequences the counters it found) and the error it threw.          *)
Called(op, arg, error) == [op |-> op, arg |-> arg, error |-> error]

(* A value of an entity field that holds objects. *)
Unset == [kind |-> "unset", items |-> <<>>]
CallerObj == [kind |-> "obj", items |-> <<>>]
Promise(v) == [kind |-> "promise", items |-> <<v>>]
One(e) == [kind |-> "one", items |-> <<e>>]
Many(es) == [kind |-> "many", items |-> es]
FactoryObj(fac) == [kind |-> "factory", items |-> <<fac>>]
DateVal == [kind |-> "date", items |-> <<>>]
(* { make: () => { throw ... } }: an object with a make that throws and    *)
(* without a name.                                                         *)
BrokenObj == [kind |-> "broken", items |-> <<>>]
(* null, a boolean, string or number, and an array without a make. *)
NullVal == [kind |-> "null", items |-> <<>>]
ScalarVal == [kind |-> "scalar", items |-> <<>>]
ListObj == [kind |-> "list", items |-> <<>>]

(* An entity: its class, the generator that made it, the settings and the  *)
(* sequence number the generator was given, and the fields role, author   *)
(* and editor; trail lists the state functions applied to it.             *)
NullEnt ==
    [type |-> "", gen |-> "", cfg |-> "", id |-> -1, role |-> "",
     trail |-> <<>>, author |-> Unset, editor |-> Unset]

(* The overrides a client passes to make()/makeMany(). *)
NoOverrides == [f \in {} |-> ""]
Overrides ==
    { NoOverrides,
      [f \in {"role"} |-> "override"],
      [f \in {"author"} |-> CallerObj] }

(* The options of an association: count is <<>> when not given. *)
AssocCounts == {<<>>, <<2>>}

-----------------------------------------------------------------------------
(* The user-supplied functions, as the tests of the repository write them  *)

(* A generator: writes the sequence number to id; g2 leaves an awaitable   *)
(* in the field author, gDate a Date, gPDate an awaitable of a Date,       *)
(* gBroken an object whose make throws; gAsync is an async function that   *)
(* leaves an awaitable in author; gScalar, gPlain, gList and gNull leave a *)
(* scalar, a plain object, an array and null.                              *)
Generate(g, cls, seq) ==
    [type |-> cls.name, gen |-> g, cfg |-> "", id |-> seq,
     role |-> "generated", trail |-> <<>>, editor |-> Unset,
     author |-> CASE g \in {"g2", "gAsync"} -> Promise(CallerObj)
                  [] g = "gDate" -> DateVal
                  [] g = "gPDate" -> Promise(DateVal)
                  [] g = "gBroken" -> BrokenObj
                  [] g = "gScalar" -> ScalarVal
                  [] g = "gPlain" -> CallerObj
                  [] g = "gList" -> ListObj
                  [] g = "gNull" -> NullVal
                  [] OTHER -> Unset]

(* The generators that put factory(User) in the field author: gSub the     *)
(* EntityFactory itself, gPSub an awaitable of it.                         *)
SubGens == {"gSub", "gPSub"}
SubTarget == [name |-> "User"]

(* A hook mutates the entity in place: h2 writes role, h1 only probes. *)
HookApply(h, e) ==
    IF h = "h2" THEN [e EXCEPT !.role = "hooked"] ELSE e

(* A state function writes role and appends its name to trail. *)
StateApply(fn, e) ==
    [e EXCEPT !.role = IF fn = "mkAdmin" THEN "admin" ELSE "verified",
              !.trail = Append(@, fn)]

(* A map function: m1 and m2 write role and return the entity they got,  *)
(* mNew returns a new object that keeps only the type and the id.         *)
MapApply(m, e) ==
    CASE m = "mNew" -> [type |-> e.type, gen |-> "", cfg |-> "", id |-> e.id,
                        role |-> "replaced", trail |-> <<>>,
                        author |-> Unset, editor |-> Unset]
      [] m = "m2" -> [e EXCEPT !.role = "mapped2"]
      [] OTHER -> [e EXCEPT !.role = "mapped"]

(* The user-supplied functions that fail.  gFail is an async generator     *)
(* whose promise rejects, g3 one whose promise rejects from the third      *)
(* sequence number on; hFail, mkBroken and mFail are a hook, a state       *)
(* function and a map function that throw.                                 *)
IsAsync(g) == g \in {"g3", "gFail", "gAsync"}

GenRejects(g, seq) == g = "gFail" \/ (g = "g3" /\ seq >= 2)

Throws(fn) == fn \in {"hFail", "mkBroken", "mFail"}

(* The error a user-supplied function fails with. *)
ErrorOf(fn) == <<"error of ", fn>>

-----------------------------------------------------------------------------
(* factory.util.ts: module-level functions                                 *)

getNameOfEntity(entity) == entity.name

NullDef ==
    [entity |-> "", factory |-> "", states |-> <<>>,
     beforeMakeHooks |-> <<>>, afterMakeHooks |-> <<>>, associations |-> <<>>]

NewDefinition(entity, factoryFn) ==
    [entity |-> entity.name, factory |-> factoryFn, states |-> <<>>,
     beforeMakeHooks |-> <<>>, afterMakeHooks |-> <<>>, associations |-> <<>>]

MapSet(m, k, v) == [x \in DOMAIN m \cup {k} |-> IF x = k THEN v ELSE m[x]]

MapGet(m, k, default) == IF k \in DOMAIN m THEN m[k] ELSE default

(* define: if (!sequences.has(name)) sequences.set(name, 0) *)
(* Mutant of EnsureTracked: define() leaves the store as it is; the key is *)
(* tracked by the first draw.                                              *)
EnsureTrackedLazily(seqs, name) == seqs

(* Mutant of EnsureTracked: the counter is set to 0 whether or not the key *)
(* is tracked.                                                             *)
EnsureTrackedRestarts(seqs, name) == MapSet(seqs, name, 0)

EnsureTracked(seqs, name) ==
    IF name \in DOMAIN seqs THEN seqs ELSE MapSet(seqs, name, 0)

(* Mutant of ResetAll: the store is cleared. *)
ResetAllClear(seqs) == <<>>

(* resetSequences: sequences.forEach((_, key) => sequences.set(key, 0)) *)
ResetAll(seqs) == [k \in DOMAIN seqs |-> 0]

(* Mutant of DrawSequence: the counter is incremented before it is read. *)
DrawSequencePreIncrement(seqs, name) ==
    LET cur == MapGet(seqs, name, 0) + 1
    IN  [currentSequence |-> cur, sequences |-> MapSet(seqs, name, cur)]

(* Mutant of DrawSequence: one counter shared by all keys. *)
DrawSequenceShared(seqs, name) ==
    LET cur == MapGet(seqs, name, 0)
    IN  [currentSequence |-> cur,
         sequences |-> [k \in DOMAIN seqs \cup {name} |->
                           MapGet(seqs, k, 0) + 1]]

(* make: const currentSequence = sequences.get(this.name) || 0;            *)
(*       sequences.set(this.name, currentSequence + 1)                     *)
DrawSequence(seqs, name) ==
    LET cur == MapGet(seqs, name, 0)
    IN  [currentSequence |-> cur, sequences |-> MapSet(seqs, name, cur + 1)]

FactoryNotDefined(name) == <<"Factory for ", name, " is not defined">>

StateNotDefined(stateName, name) ==
    <<"State \"", stateName, "\" is not defined for ", name>>

(* settings is "" when factory() was called without settings. *)
NoFac ==
    [name |-> "", factoryFunction |-> "", settings |-> "", definition |-> 0,
     mapFunction |-> "", activeStates |-> <<>>]

(* factory(entity): the EntityFactory it returns, or the error it throws. *)
factory(efs, ds, entity) ==
    LET name == getNameOfEntity(entity)
        d == MapGet(efs, name, 0)
    IN  IF d = 0
        THEN [ok |-> FALSE, error |-> FactoryNotDefined(name), fac |-> NoFac]
        ELSE [ok |-> TRUE, error |-> NoError,
              fac |-> [name |-> name, factoryFunction |-> ds[d].factory,
                       settings |-> "", definition |-> d,
                       mapFunction |-> "", activeStates |-> <<>>]]

(* Mutant of isArray: no association is an array association. *)
isArrayNever(count) == FALSE

(* isArray: options?.count !== undefined && options.count > 1 *)
(* Mutant of isArray: a count of 1 declares an array. *)
isArrayFromOne(count) == count # <<>> /\ count[1] >= 1

isArray(count) == count # <<>> /\ count[1] > 1

(* this.factoryFunction(faker, this.settings, currentSequence): the entity *)
(* the generator returns, or the error it throws (the factory(User) of a   *)
(* generator of SubGens throws when User has no definition).               *)
Generated(fac, seq) ==
    LET g == fac.factoryFunction
        e == [Generate(g, [name |-> fac.name], seq) EXCEPT
                 !.cfg = fac.settings]
        sub == factory(entityFactories, defs, SubTarget)
    IN  IF g \notin SubGens
        THEN [ok |-> TRUE, error |-> NoError, ent |-> e]
        ELSE IF ~sub.ok
        THEN [ok |-> FALSE, error |-> sub.error, ent |-> NullEnt]
        ELSE [ok |-> TRUE, error |-> NoError,
              ent |-> [e EXCEPT !.author =
                          IF g = "gSub" THEN FactoryObj(sub.fac)
                          ELSE Promise(FactoryObj(sub.fac))]]

-----------------------------------------------------------------------------
(* Frames                                                                  *)

Event(step, name) == [d |-> 0, step |-> step, name |-> name]

Nest(log) == [n \in 1..Len(log) |-> [log[n] EXCEPT !.d = @ + 1]]

(* The frame of a make() call right after its synchronous start: the       *)
(* sequence number is drawn and the generator has been called; a generator *)
(* that throws rejects the call.                                           *)
MakeFrame(fac, slot, seq, overrideParams) ==
    LET g == Generated(fac, seq)
    IN  [op |-> "make", slot |-> slot, fac |-> fac,
         pc |-> IF g.ok THEN "resolve" ELSE "rejected", i |-> 1,
         seq |-> seq, ent |-> g.ent,
         ov |-> overrideParams, amount |-> 0, list |-> <<>>, err |-> g.error,
         pending |-> <<>>,
         log |-> <<Event("seq", fac.name), Event("gen", fac.factoryFunction)>>]

MakeManyFrame(fac, slot, amount, overrideParams) ==
    [op |-> "makeMany", slot |-> slot, fac |-> fac, pc |-> "loop", i |-> 1,
     seq |-> -1, ent |-> NullEnt, ov |-> overrideParams, amount |-> amount,
     list |-> <<>>, err |-> NoError, pending |-> <<>>, log |-> <<>>]

(* The EntityFactory a frame runs on: the client's object, read when the   *)
(* frame is resumed, or the fresh one an association created.              *)
FacOf(fr) == IF fr.slot = 0 THEN fr.fac ELSE facs[fr.slot]

DefOf(fr) == defs[FacOf(fr).definition]

Top(st) == st[Len(st)]

Pop(st) == SubSeq(st, 1, Len(st) - 1)

SetTop(st, fr) == [st EXCEPT ![Len(st)] = fr]

(* Mutant of Pos: the states are applied before the associations. *)
PosStatesFirst(fr) ==
    LET def == DefOf(fr)
        fac == FacOf(fr)
        p1 == IF fr.pc = "before" /\ fr.i > Len(def.beforeMakeHooks)
              THEN [pc |-> "states", i |-> 1] ELSE [pc |-> fr.pc, i |-> fr.i]
        p2 == IF p1.pc = "states" /\ p1.i > Len(fac.activeStates)
              THEN [pc |-> "assoc", i |-> 1] ELSE p1
        p3 == IF p2.pc = "assoc" /\ p2.i > Len(def.associations)
              THEN [pc |-> "map", i |-> 1] ELSE p2
        p4 == IF p3.pc = "map" /\ fac.mapFunction = ""
              THEN [pc |-> "override", i |-> 1] ELSE p3
        p5 == IF p4.pc = "after" /\ p4.i > Len(def.afterMakeHooks)
              THEN [pc |-> "return", i |-> 1] ELSE p4
    IN  p5

(* Where a make() frame resumes: the loops that have nothing left to do    *)
(* are passed over.                                                        *)
Pos(fr) ==
    LET def == DefOf(fr)
        fac == FacOf(fr)
        p1 == IF fr.pc = "before" /\ fr.i > Len(def.beforeMakeHooks)
              THEN [pc |-> "assoc", i |-> 1] ELSE [pc |-> fr.pc, i |-> fr.i]
        p2 == IF p1.pc = "assoc" /\ p1.i > Len(def.associations)
              THEN [pc |-> "states", i |-> 1] ELSE p1
        p3 == IF p2.pc = "states" /\ p2.i > Len(fac.activeStates)
              THEN [pc |-> "map", i |-> 1] ELSE p2
        p4 == IF p3.pc = "map" /\ fac.mapFunction = ""
              THEN [pc |-> "override", i |-> 1] ELSE p3
        p5 == IF p4.pc = "after" /\ p4.i > Len(def.afterMakeHooks)
              THEN [pc |-> "return", i |-> 1] ELSE p4
    IN  p5

Running(t) == t \in 1..Len(tasks)

(* Mutant of Suspended: the call of a user-supplied function is not        *)
(* awaited.                                                                *)
NeverSuspended(fr) == FALSE

(* await: the frame stays where it is while the user-supplied function it  *)
(* called has not completed.                                               *)
Suspended(fr) == fr.pending # <<>>

At(t, op, pc) ==
    /\ Running(t)
    /\ Top(tasks[t]).op = op
    /\ ~Suspended(Top(tasks[t]))
    /\ Pos(Top(tasks[t])).pc = pc

Resume(t, fr) == tasks' = [tasks EXCEPT ![t] = SetTop(@, fr)]

Idle == tasks = <<>>

-----------------------------------------------------------------------------
(* EntityFactory.make and makeMany: the synchronous start of a call        *)

(* make() up to its first await: the stack with the new frame on top, and  *)
(* the sequence store after the draw.                                      *)
CallMake(st, seqs, fac, slot, overrideParams) ==
    IF fac.factoryFunction = ""
    THEN [stack |-> Append(st,
                      [MakeFrame(fac, slot, -1, overrideParams) EXCEPT
                          !.pc = "rejected", !.ent = NullEnt, !.log = <<>>,
                          !.err = <<"Could not found entity">>]),
          sequences |-> seqs]
    ELSE LET drawn == DrawSequence(seqs, fac.name)
         IN  [stack |-> Append(st, MakeFrame(fac, slot, drawn.currentSequence,
                                             overrideParams)),
              sequences |-> drawn.sequences]

(* makeMany() up to its first await: the loop calls the first make(), or   *)
(* returns the empty list when amount is 0.                                *)
CallMakeMany(st, seqs, fac, slot, amount, overrideParams) ==
    LET fr == MakeManyFrame(fac, slot, amount, overrideParams)
    IN  IF amount > 0
        THEN CallMake(Append(st, fr), seqs, fac, slot, overrideParams)
        ELSE [stack |-> Append(st, [fr EXCEPT !.pc = "return"]),
              sequences |-> seqs]

-----------------------------------------------------------------------------
(* The calls of the client                                                 *)

(* Mutant of Define: the factories created for the key are moved to the   *)
(* new definition and its generator.                                       *)
DefineRebinds(entity, factoryFn) ==
    LET name == getNameOfEntity(entity)
    IN  /\ Len(defs) < MaxDefs
        /\ defs' = Append(defs, NewDefinition(entity, factoryFn))
        /\ entityFactories' = MapSet(entityFactories, name, Len(defs) + 1)
        /\ sequences' = EnsureTracked(sequences, name)
        /\ called' = Called("define", <<>>, NoError)
        /\ facs' = [s \in Slots |->
                       IF facs[s].name = name
                       THEN [facs[s] EXCEPT !.factoryFunction = factoryFn,
                                            !.definition = Len(defs) + 1]
                       ELSE facs[s]]
        /\ UNCHANGED tasks

(* Mutant of Define: a re-registration keeps the states, hooks and        *)
(* associations of the definition it replaces.                             *)
DefineMerges(entity, factoryFn) ==
    LET old == MapGet(entityFactories, getNameOfEntity(entity), 0)
    IN  /\ Len(defs) < MaxDefs
        /\ defs' = Append(defs,
                       IF old = 0 THEN NewDefinition(entity, factoryFn)
                       ELSE [defs[old] EXCEPT !.factory = factoryFn])
        /\ entityFactories' =
               MapSet(entityFactories, getNameOfEntity(entity), Len(defs) + 1)
        /\ sequences' = EnsureTracked(sequences, getNameOfEntity(entity))
        /\ called' = Called("define", <<>>, NoError)
        /\ UNCHANGED <<facs, tasks>>

Define(entity, factoryFn) ==
    /\ Len(defs) < MaxDefs
    /\ defs' = Append(defs, NewDefinition(entity, factoryFn))
    /\ entityFactories' =
           MapSet(entityFactories, getNameOfEntity(entity), Len(defs) + 1)
    /\ sequences' = EnsureTracked(sequences, getNameOfEntity(entity))
    /\ called' = Called("define", <<>>, NoError)
    /\ UNCHANGED <<facs, tasks>>

(* The builder define() returned for definition d. *)
BuilderState(d, name, stateFn) ==
    /\ d \in 1..Len(defs)
    /\ defs' = [defs EXCEPT ![d].states = MapSet(@, name, stateFn)]
    /\ called' = Called("builder.state", <<d, name>>, NoError)
    /\ UNCHANGED <<entityFactories, sequences, facs, tasks>>

BuilderBeforeMake(d, hook) ==
    /\ d \in 1..Len(defs)
    /\ Len(defs[d].beforeMakeHooks) < MaxHooks
    /\ defs' = [defs EXCEPT ![d].beforeMakeHooks = Append(@, hook)]
    /\ called' = Called("builder.beforeMake", <<d, hook>>, NoError)
    /\ UNCHANGED <<entityFactories, sequences, facs, tasks>>

(* Mutant of BuilderAfterMake: the hook is pushed to the definition the    *)
(* registry holds for the key of the builder's definition.                 *)
BuilderAfterMakeByKey(d, hook) ==
    /\ d \in 1..Len(defs)
    /\ Len(defs[entityFactories[defs[d].entity]].afterMakeHooks) < MaxHooks
    /\ defs' = [defs EXCEPT ![entityFactories[defs[d].entity]].afterMakeHooks
                               = Append(@, hook)]
    /\ called' = Called("builder.afterMake", <<d, hook>>, NoError)
    /\ UNCHANGED <<entityFactories, sequences, facs, tasks>>

BuilderAfterMake(d, hook) ==
    /\ d \in 1..Len(defs)
    /\ Len(defs[d].afterMakeHooks) < MaxHooks
    /\ defs' = [defs EXCEPT ![d].afterMakeHooks = Append(@, hook)]
    /\ called' = Called("builder.afterMake", <<d, hook>>, NoError)
    /\ UNCHANGED <<entityFactories, sequences, facs, tasks>>

(* Mutant of BuilderAssociation: the declaration is pushed to a copy of    *)
(* the definition, which the registry does not hold.                       *)
BuilderAssociationOnCopy(d, fieldName, entityClass, count) ==
    /\ d \in 1..Len(defs)
    /\ Len(defs[d].associations) < MaxAssocs
    /\ called' = Called("builder.association", <<d>>, NoError)
    /\ UNCHANGED <<entityFactories, sequences, defs, facs, tasks>>

BuilderAssociation(d, fieldName, entityClass, count) ==
    /\ d \in 1..Len(defs)
    /\ Len(defs[d].associations) < MaxAssocs
    /\ defs' = [defs EXCEPT ![d].associations =
                   Append(@, [fieldName |-> fieldName,
                              entityClass |-> entityClass,
                              isArray |-> isArray(count),
                              count |-> count])]
    /\ called' = Called("builder.association", <<d>>, NoError)
    /\ UNCHANGED <<entityFactories, sequences, facs, tasks>>

(* Mutant of Factory: the key is tracked in the sequence store before the  *)
(* registry is looked up.                                                  *)
FactoryTracksKey(entity, slot) ==
    LET r == factory(entityFactories, defs, entity)
    IN  /\ slot \in Slots
        /\ facs' = IF r.ok THEN [facs EXCEPT ![slot] = r.fac] ELSE facs
        /\ sequences' = EnsureTracked(sequences, getNameOfEntity(entity))
        /\ called' = Called("factory", <<getNameOfEntity(entity)>>, r.error)
        /\ UNCHANGED <<entityFactories, defs, tasks>>

(* const f = factory(entity): the client keeps the object in slot. *)
Factory(entity, slot) ==
    LET r == factory(entityFactories, defs, entity)
    IN  /\ slot \in Slots
        /\ facs' = IF r.ok THEN [facs EXCEPT ![slot] = r.fac] ELSE facs
        /\ called' = Called("factory", <<getNameOfEntity(entity)>>, r.error)
        /\ UNCHANGED <<entityFactories, sequences, defs, tasks>>

(* const f = factory(entity, settings) *)
FactoryWith(entity, settings, slot) ==
    LET r == factory(entityFactories, defs, entity)
    IN  /\ slot \in Slots
        /\ facs' = IF r.ok
                   THEN [facs EXCEPT ![slot] =
                            [r.fac EXCEPT !.settings = settings]]
                   ELSE facs
        /\ called' = Called("factory", <<getNameOfEntity(entity)>>, r.error)
        /\ UNCHANGED <<entityFactories, sequences, defs, tasks>>

(* Mutant of EFState: state() looks the name up in the definition and      *)
(* throws when it has no state function.                                   *)
EFStateChecks(slot, stateName) ==
    /\ slot \in Slots
    /\ facs[slot] # NoFac
    /\ Len(facs[slot].activeStates) < MaxActive
    /\ LET known == stateName \in DOMAIN defs[facs[slot].definition].states
       IN  /\ facs' = IF known
                      THEN [facs EXCEPT ![slot].activeStates =
                               Append(@, stateName)]
                      ELSE facs
           /\ called' = Called("state", <<stateName>>,
                               IF known THEN NoError
                               ELSE StateNotDefined(stateName,
                                                    facs[slot].name))
    /\ UNCHANGED <<entityFactories, sequences, defs, tasks>>

EFState(slot, stateName) ==
    /\ slot \in Slots
    /\ facs[slot] # NoFac
    /\ Len(facs[slot].activeStates) < MaxActive
    /\ facs' = [facs EXCEPT ![slot].activeStates = Append(@, stateName)]
    /\ called' = Called("state", <<stateName>>, NoError)
    /\ UNCHANGED <<entityFactories, sequences, defs, tasks>>

EFStates(slot, stateNames) ==
    /\ slot \in Slots
    /\ facs[slot] # NoFac
    /\ Len(facs[slot].activeStates) + Len(stateNames) <= MaxActive
    /\ facs' = [facs EXCEPT ![slot].activeStates = @ \o stateNames]
    /\ called' = Called("states", stateNames, NoError)
    /\ UNCHANGED <<entityFactories, sequences, defs, tasks>>

(* Mutant of EFMap: a map function already recorded is kept. *)
EFMapKeepsFirst(slot, mapFunction) ==
    /\ slot \in Slots
    /\ facs[slot] # NoFac
    /\ facs' = [facs EXCEPT ![slot].mapFunction =
                    IF @ = "" THEN mapFunction ELSE @]
    /\ called' = Called("map", <<mapFunction>>, NoError)
    /\ UNCHANGED <<entityFactories, sequences, defs, tasks>>

EFMap(slot, mapFunction) ==
    /\ slot \in Slots
    /\ facs[slot] # NoFac
    /\ facs' = [facs EXCEPT ![slot].mapFunction = mapFunction]
    /\ called' = Called("map", <<mapFunction>>, NoError)
    /\ UNCHANGED <<entityFactories, sequences, defs, tasks>>

(* Mutant of ResetSequences: the EntityFactory objects are reset with the  *)
(* counters.                                                               *)
ResetSequencesAndFactories ==
    /\ sequences' = ResetAll(sequences)
    /\ facs' = [s \in Slots |->
                   IF facs[s] = NoFac THEN NoFac
                   ELSE [facs[s] EXCEPT !.activeStates = <<>>,
                                        !.mapFunction = "",
                                        !.settings = ""]]
    /\ called' = Called("resetSequences", <<sequences>>, NoError)
    /\ UNCHANGED <<entityFactories, defs, tasks>>

ResetSequences ==
    /\ sequences' = ResetAll(sequences)
    /\ called' = Called("resetSequences", <<sequences>>, NoError)
    /\ UNCHANGED <<entityFactories, defs, facs, tasks>>

(* The client starts no production for a key whose counter is at MaxSeq. *)
BelowMaxSeq(name) == MapGet(sequences, name, 0) < MaxSeq

(* Mutant of StartMake: the counter is read at the start and written back  *)
(* only after the first suspension point, which is not modelled: the start *)
(* leaves the counter as it is.                                            *)
StartMakeReadsOnly(slot, overrideParams) ==
    /\ slot \in Slots
    /\ facs[slot] # NoFac
    /\ BelowMaxSeq(facs[slot].name)
    /\ Len(tasks) < MaxSeq
    /\ LET r == CallMake(<<>>, sequences, facs[slot], slot, overrideParams)
       IN  /\ tasks' = Append(tasks, r.stack)
           /\ sequences' = sequences
    /\ called' = Called("make", <<>>, NoError)
    /\ UNCHANGED <<entityFactories, defs, facs>>

StartMake(slot, overrideParams) ==
    /\ slot \in Slots
    /\ facs[slot] # NoFac
    /\ BelowMaxSeq(facs[slot].name)
    /\ LET r == CallMake(<<>>, sequences, facs[slot], slot, overrideParams)
       IN  /\ tasks' = Append(tasks, r.stack)
           /\ sequences' = r.sequences
    /\ called' = Called("make", <<>>, NoError)
    /\ UNCHANGED <<entityFactories, defs, facs>>

StartMakeMany(slot, amount, overrideParams) ==
    /\ slot \in Slots
    /\ facs[slot] # NoFac
    /\ BelowMaxSeq(facs[slot].name)
    /\ LET r == CallMakeMany(<<>>, sequences, facs[slot], slot, amount,
                             overrideParams)
       IN  /\ tasks' = Append(tasks, r.stack)
           /\ sequences' = r.sequences
    /\ called' = Called("makeMany", <<>>, NoError)
    /\ UNCHANGED <<entityFactories, defs, facs>>

-----------------------------------------------------------------------------
(* EntityFactory.make: the steps after the synchronous start               *)

(* !!o && typeof o is object or function && typeof o.then === 'function'   *)
(* && !(o instanceof Date)                                                 *)
isPromiseLike(v) == v.kind = "promise"

(* Mutant of resolveEntity: a Date is taken for a sub-factory, and what    *)
(* its missing make() gives, nothing, replaces it.                         *)
resolveEntityDates(e) ==
    [e EXCEPT !.author = IF isPromiseLike(@) THEN @.items[1]
                         ELSE IF @.kind = "date" THEN Unset ELSE @]

(* resolveEntity: an awaitable attribute is replaced by its value. *)
resolveEntity(e) ==
    [e EXCEPT !.author = IF isPromiseLike(@) THEN @.items[1] ELSE @]

(* typeof v === 'object': every value of the field but undefined and the  *)
(* scalars; typeof null is 'object'.                                       *)
IsObject(v) == v.kind \notin {"unset", "scalar"}

IsNull(v) == v.kind = "null"

IsDate(v) == v.kind = "date"

(* typeof v.make === 'function' *)
HasMake(v) == v.kind \in {"factory", "broken"}

(* resolveEntity: the attribute is replaced by the result of its make(). *)
IsSubFactory(v) == IsObject(v) /\ ~IsDate(v) /\ HasMake(v)

(* resolveEntity: catch (error) { throw new Error(`Could not make ${name}`) } *)
CouldNotMake(name) == <<"Could not make ", name>>

(* resolveEntity on null: reading subEntityFactory.make throws a TypeError *)
(* in the try block, and reading subEntityFactory.name throws another in   *)
(* the catch block, which leaves resolveEntity.                            *)
NullTypeError == <<"TypeError: Cannot read properties of null">>

(* Mutant of ApplyOverrides: an override fills only a field that the       *)
(* earlier steps left unset.                                               *)
ApplyOverridesIfUnset(e, overrideParams) ==
    [f \in DOMAIN e |->
        IF f \in DOMAIN overrideParams /\ e[f] = NullEnt[f]
        THEN overrideParams[f] ELSE e[f]]

(* for (const key in overrideParams) entity[key] = overrideParams[key] *)
ApplyOverrides(e, overrideParams) ==
    [f \in DOMAIN e |->
        IF f \in DOMAIN overrideParams THEN overrideParams[f] ELSE e[f]]

(* new (this.entity)(): a bare instance of the entity type. *)
NewInstance(fac) == [NullEnt EXCEPT !.type = fac.name]

(* Mutant of Build: the instance comes from the generator, which draws a   *)
(* sequence number.                                                        *)
BuildFromGenerator(slot, params) ==
    /\ slot \in Slots
    /\ facs[slot] # NoFac
    /\ LET drawn == DrawSequence(sequences, facs[slot].name)
       IN  /\ sequences' = drawn.sequences
           /\ called' = Called("build",
                  <<ApplyOverrides(Generate(facs[slot].factoryFunction,
                                            [name |-> facs[slot].name],
                                            drawn.currentSequence), params)>>,
                  NoError)
    /\ UNCHANGED <<entityFactories, defs, facs, tasks>>

(* build(params): synchronous; the entity it returns is the argument of    *)
(* the recorded call.                                                      *)
Build(slot, params) ==
    /\ slot \in Slots
    /\ facs[slot] # NoFac
    /\ called' = Called("build",
                        <<ApplyOverrides(NewInstance(facs[slot]), params)>>,
                        NoError)
    /\ UNCHANGED <<entityFactories, sequences, defs, facs, tasks>>

Logged(fr, step, name) == [fr EXCEPT !.log = Append(@, Event(step, name))]

Reject(fr, p, error) == [fr EXCEPT !.pc = "rejected", !.i = p.i, !.err = error]

(* The call of a user-supplied function that the frame awaits. *)
Awaiting(fr, kind, name) ==
    [fr EXCEPT !.pending = Append(@, [kind |-> kind, name |-> name])]

(* What the user-supplied function has done to the entity when the         *)
(* promise it returned resolves.                                           *)
Effect(call, e) ==
    CASE call.kind \in {"before", "after"} -> HookApply(call.name, e)
      [] call.kind = "state" -> StateApply(call.name, e)
      [] call.kind = "map" -> MapApply(call.name, e)

(* resolveEntity(this.factoryFunction(...)): an async generator returns a  *)
(* promise, for...in finds no own attribute in it, and the entity the      *)
(* promise resolves to is taken as it is.                                  *)
Resolved(e) == IF IsAsync(e.gen) THEN e ELSE resolveEntity(e)

(* await this.resolveEntity(this.factoryFunction(...)): the rejection of   *)
(* an async generator arrives here; an awaitable attribute is awaited, and *)
(* make() is called on an attribute that is a sub-factory; an attribute    *)
(* that is null passes the typeof test and fails the read of make.         *)
ResolveStep(t) ==
    /\ At(t, "make", "resolve")
    /\ LET fr == Top(tasks[t])
           awaited == Resolved(fr.ent)
           v == awaited.author
           here == [pc |-> fr.pc, i |-> fr.i]
           waiting == [Logged(fr, "nested", "author") EXCEPT
                          !.ent = awaited, !.pc = "nested"]
           r == CallMake(SetTop(tasks[t], waiting), sequences, v.items[1], 0,
                         NoOverrides)
       IN  IF GenRejects(fr.ent.gen, fr.seq)
           THEN /\ Resume(t, Reject(Logged(fr, "failed", fr.ent.gen), here,
                                    ErrorOf(fr.ent.gen)))
                /\ UNCHANGED sequences
           ELSE IF ~IsAsync(fr.ent.gen) /\ IsObject(v) /\ ~IsDate(v) /\ IsNull(v)
           THEN /\ Resume(t, Reject(Logged(fr, "failed", "make"), here,
                                    NullTypeError))
                /\ UNCHANGED sequences
           ELSE IF IsAsync(fr.ent.gen) \/ ~IsSubFactory(v)
           THEN /\ Resume(t, [Logged(fr, "resolve", "") EXCEPT
                                 !.ent = awaited, !.pc = "before", !.i = 1])
                /\ UNCHANGED sequences
           ELSE IF v.kind = "broken"
           THEN /\ Resume(t, Reject(Logged(fr, "failed", "make"), here,
                                    CouldNotMake("undefined")))
                /\ UNCHANGED sequences
           ELSE /\ Len(r.stack) <= MaxDepth
                /\ tasks' = [tasks EXCEPT ![t] = r.stack]
                /\ sequences' = r.sequences
    /\ UNCHANGED <<entityFactories, defs, facs, called>>

(* for (const hook of this.definition.beforeMakeHooks) await hook(entity) *)
BeforeHookStep(t) ==
    /\ At(t, "make", "before")
    /\ LET fr == Top(tasks[t])
           p == Pos(fr)
           hook == DefOf(fr).beforeMakeHooks[p.i]
       IN  Resume(t, [Awaiting(Logged(fr, "before", hook), "before", hook)
                         EXCEPT !.pc = "before", !.i = p.i + 1])
    /\ UNCHANGED <<entityFactories, sequences, defs, facs, called>>

(* Mutant of AssociationStep: the target factory takes the settings and   *)
(* the activation list of the parent factory.                              *)
AssociationStepInherits(t) ==
    /\ At(t, "make", "assoc")
    /\ LET fr == Top(tasks[t])
           p == Pos(fr)
           assoc == DefOf(fr).associations[p.i]
           f == factory(entityFactories, defs, assoc.entityClass)
           fac == [f.fac EXCEPT !.settings = FacOf(fr).settings,
                                !.activeStates = FacOf(fr).activeStates]
           waiting == [Logged(fr, "assoc", assoc.fieldName) EXCEPT
                          !.pc = "assoc", !.i = p.i]
           st == SetTop(tasks[t], waiting)
           r == IF assoc.isArray /\ assoc.count # <<>> /\ assoc.count[1] # 0
                THEN CallMakeMany(st, sequences, fac, 0, assoc.count[1],
                                  NoOverrides)
                ELSE CallMake(st, sequences, fac, 0, NoOverrides)
       IN  IF ~f.ok
           THEN /\ Resume(t, Reject(fr, p, f.error))
                /\ UNCHANGED sequences
           ELSE /\ Len(r.stack) <= MaxDepth
                /\ tasks' = [tasks EXCEPT ![t] = r.stack]
                /\ sequences' = r.sequences
    /\ UNCHANGED <<entityFactories, defs, facs, called>>

(* Mutant of AssociationStep: an association whose target is the class of  *)
(* the factory itself is skipped.                                          *)
AssociationStepSkipsSelf(t) ==
    /\ At(t, "make", "assoc")
    /\ LET fr == Top(tasks[t])
           p == Pos(fr)
           assoc == DefOf(fr).associations[p.i]
           f == factory(entityFactories, defs, assoc.entityClass)
           waiting == [Logged(fr, "assoc", assoc.fieldName) EXCEPT
                          !.pc = "assoc", !.i = p.i]
           st == SetTop(tasks[t], waiting)
           r == IF assoc.isArray /\ assoc.count # <<>> /\ assoc.count[1] # 0
                THEN CallMakeMany(st, sequences, f.fac, 0, assoc.count[1],
                                  NoOverrides)
                ELSE CallMake(st, sequences, f.fac, 0, NoOverrides)
       IN  IF getNameOfEntity(assoc.entityClass) = FacOf(fr).name
           THEN /\ Resume(t, [fr EXCEPT !.pc = "assoc", !.i = p.i + 1])
                /\ UNCHANGED sequences
           ELSE IF ~f.ok
           THEN /\ Resume(t, Reject(fr, p, f.error))
                /\ UNCHANGED sequences
           ELSE /\ Len(r.stack) <= MaxDepth
                /\ tasks' = [tasks EXCEPT ![t] = r.stack]
                /\ sequences' = r.sequences
    /\ UNCHANGED <<entityFactories, defs, facs, called>>

(* Mutant of AssociationStep: an association whose field is among the      *)
(* overrides is skipped.                                                   *)
AssociationStepUnlessOverridden(t) ==
    /\ At(t, "make", "assoc")
    /\ LET fr == Top(tasks[t])
           p == Pos(fr)
           assoc == DefOf(fr).associations[p.i]
           f == factory(entityFactories, defs, assoc.entityClass)
           waiting == [Logged(fr, "assoc", assoc.fieldName) EXCEPT
                          !.pc = "assoc", !.i = p.i]
           st == SetTop(tasks[t], waiting)
           r == IF assoc.isArray /\ assoc.count # <<>> /\ assoc.count[1] # 0
                THEN CallMakeMany(st, sequences, f.fac, 0, assoc.count[1],
                                  NoOverrides)
                ELSE CallMake(st, sequences, f.fac, 0, NoOverrides)
       IN  IF assoc.fieldName \in DOMAIN fr.ov
           THEN /\ Resume(t, [fr EXCEPT !.pc = "assoc", !.i = p.i + 1])
                /\ UNCHANGED sequences
           ELSE IF ~f.ok
           THEN /\ Resume(t, Reject(fr, p, f.error))
                /\ UNCHANGED sequences
           ELSE /\ Len(r.stack) <= MaxDepth
                /\ tasks' = [tasks EXCEPT ![t] = r.stack]
                /\ sequences' = r.sequences
    /\ UNCHANGED <<entityFactories, defs, facs, called>>

(* await factory(assoc.entityClass).make() or .makeMany(assoc.count) *)
AssociationStep(t) ==
    /\ At(t, "make", "assoc")
    /\ LET fr == Top(tasks[t])
           p == Pos(fr)
           assoc == DefOf(fr).associations[p.i]
           f == factory(entityFactories, defs, assoc.entityClass)
           waiting == [Logged(fr, "assoc", assoc.fieldName) EXCEPT
                          !.pc = "assoc", !.i = p.i]
           st == SetTop(tasks[t], waiting)
           r == IF assoc.isArray /\ assoc.count # <<>> /\ assoc.count[1] # 0
                THEN CallMakeMany(st, sequences, f.fac, 0, assoc.count[1],
                                  NoOverrides)
                ELSE CallMake(st, sequences, f.fac, 0, NoOverrides)
       IN  IF ~f.ok
           THEN /\ Resume(t, Reject(fr, p, f.error))
                /\ UNCHANGED sequences
           ELSE /\ Len(r.stack) <= MaxDepth
                /\ tasks' = [tasks EXCEPT ![t] = r.stack]
                /\ sequences' = r.sequences
    /\ UNCHANGED <<entityFactories, defs, facs, called>>

Finished(fr) ==
    /\ ~Suspended(fr)
    /\ \/ fr.pc = "rejected"
       \/ fr.op = "makeMany" /\ fr.pc = "return"
       \/ fr.op = "make" /\ Pos(fr).pc = "return"

Returned(fr) == Finished(fr) /\ fr.pc # "rejected"

(* Mutant of AssociationReturn: an association also advances the counter   *)
(* of the owner.                                                           *)
AssociationReturnBumpsOwner(t) ==
    /\ Running(t)
    /\ Len(tasks[t]) >= 2
    /\ LET st == tasks[t]
           child == Top(st)
           fr == st[Len(st) - 1]
           value == IF child.op = "make" THEN One(child.ent)
                    ELSE Many(child.list)
           assoc == DefOf(fr).associations[fr.i]
       IN  /\ fr.op = "make"
           /\ fr.pc = "assoc"
           /\ Returned(child)
           /\ tasks' = [tasks EXCEPT ![t] =
                  SetTop(Pop(st),
                      [fr EXCEPT !.ent = [@ EXCEPT ![assoc.fieldName] = value],
                                 !.log = @ \o Nest(child.log),
                                 !.i = @ + 1])]
           /\ sequences' = DrawSequence(sequences, FacOf(fr).name).sequences
    /\ UNCHANGED <<entityFactories, defs, facs, called>>

(* Mutant of AssociationReturn: a field that already holds a value keeps  *)
(* it.                                                                     *)
AssociationReturnKeepsValue(t) ==
    /\ Running(t)
    /\ Len(tasks[t]) >= 2
    /\ LET st == tasks[t]
           child == Top(st)
           fr == st[Len(st) - 1]
           value == IF child.op = "make" THEN One(child.ent)
                    ELSE Many(child.list)
           assoc == DefOf(fr).associations[fr.i]
       IN  /\ fr.op = "make"
           /\ fr.pc = "assoc"
           /\ Returned(child)
           /\ tasks' = [tasks EXCEPT ![t] =
                  SetTop(Pop(st),
                      [fr EXCEPT !.ent = [@ EXCEPT ![assoc.fieldName] =
                                            IF @ = Unset THEN value ELSE @],
                                 !.log = @ \o Nest(child.log),
                                 !.i = @ + 1])]
    /\ UNCHANGED <<entityFactories, sequences, defs, facs, called>>

(* The awaited association target is assigned to the field. *)
AssociationReturn(t) ==
    /\ Running(t)
    /\ Len(tasks[t]) >= 2
    /\ LET st == tasks[t]
           child == Top(st)
           fr == st[Len(st) - 1]
           value == IF child.op = "make" THEN One(child.ent)
                    ELSE Many(child.list)
           assoc == DefOf(fr).associations[fr.i]
       IN  /\ fr.op = "make"
           /\ fr.pc = "assoc"
           /\ Returned(child)
           /\ tasks' = [tasks EXCEPT ![t] =
                  SetTop(Pop(st),
                      [fr EXCEPT !.ent = [@ EXCEPT ![assoc.fieldName] = value],
                                 !.log = @ \o Nest(child.log),
                                 !.i = @ + 1])]
    /\ UNCHANGED <<entityFactories, sequences, defs, facs, called>>

(* resolveEntity: entity[attribute] = await subEntityFactory.make() *)
NestedReturn(t) ==
    /\ Running(t)
    /\ Len(tasks[t]) >= 2
    /\ LET st == tasks[t]
           child == Top(st)
           fr == st[Len(st) - 1]
       IN  /\ fr.op = "make"
           /\ fr.pc = "nested"
           /\ Returned(child)
           /\ tasks' = [tasks EXCEPT ![t] =
                  SetTop(Pop(st),
                      [fr EXCEPT !.ent = [@ EXCEPT !.author = One(child.ent)],
                                 !.log = (@ \o Nest(child.log))
                                         \o <<Event("resolve", "")>>,
                                 !.pc = "before", !.i = 1])]
    /\ UNCHANGED <<entityFactories, sequences, defs, facs, called>>

(* Mutant of NestedCatch: the error of the sub-factory is thrown again.   *)
NestedCatchKeepsError(t) ==
    /\ Running(t)
    /\ Len(tasks[t]) >= 2
    /\ LET st == tasks[t]
           child == Top(st)
           fr == st[Len(st) - 1]
       IN  /\ fr.op = "make"
           /\ fr.pc = "nested"
           /\ child.pc = "rejected"
           /\ tasks' = [tasks EXCEPT ![t] =
                  SetTop(Pop(st),
                      [fr EXCEPT !.pc = "rejected",
                                 !.err = child.err,
                                 !.log = @ \o Nest(child.log)])]
    /\ UNCHANGED <<entityFactories, sequences, defs, facs, called>>

(* resolveEntity: the make() of the sub-factory has failed: the error is   *)
(* caught and a new one, naming the sub-factory, is thrown.                *)
NestedCatch(t) ==
    /\ Running(t)
    /\ Len(tasks[t]) >= 2
    /\ LET st == tasks[t]
           child == Top(st)
           fr == st[Len(st) - 1]
       IN  /\ fr.op = "make"
           /\ fr.pc = "nested"
           /\ child.pc = "rejected"
           /\ tasks' = [tasks EXCEPT ![t] =
                  SetTop(Pop(st),
                      [fr EXCEPT !.pc = "rejected",
                                 !.err = CouldNotMake(child.fac.name),
                                 !.log = @ \o Nest(child.log)])]
    /\ UNCHANGED <<entityFactories, sequences, defs, facs, called>>

(* Mutant of StateStep: the activation list is walked from its end. *)
StateStepFromEnd(t) ==
    /\ At(t, "make", "states")
    /\ LET fr == Top(tasks[t])
           p == Pos(fr)
           active == FacOf(fr).activeStates
           stateName == active[Len(active) + 1 - p.i]
           states == DefOf(fr).states
       IN  IF stateName \in DOMAIN states
           THEN Resume(t, [Awaiting(Logged(fr, "state", stateName),
                                    "state", states[stateName])
                              EXCEPT !.pc = "states", !.i = p.i + 1])
           ELSE Resume(t, Reject(fr, p,
                                 StateNotDefined(stateName, FacOf(fr).name)))
    /\ UNCHANGED <<entityFactories, sequences, defs, facs, called>>

(* Mutant of StateStep: a name without a state function is passed over. *)
StateStepSkipsUndefined(t) ==
    /\ At(t, "make", "states")
    /\ LET fr == Top(tasks[t])
           p == Pos(fr)
           stateName == FacOf(fr).activeStates[p.i]
           states == DefOf(fr).states
       IN  IF stateName \in DOMAIN states
           THEN Resume(t, [Awaiting(Logged(fr, "state", stateName),
                                    "state", states[stateName])
                              EXCEPT !.pc = "states", !.i = p.i + 1])
           ELSE Resume(t, [fr EXCEPT !.pc = "states", !.i = p.i + 1])
    /\ UNCHANGED <<entityFactories, sequences, defs, facs, called>>

(* for (const stateName of this.activeStates) ... await stateFn(entity) *)
StateStep(t) ==
    /\ At(t, "make", "states")
    /\ LET fr == Top(tasks[t])
           p == Pos(fr)
           stateName == FacOf(fr).activeStates[p.i]
           states == DefOf(fr).states
       IN  IF stateName \in DOMAIN states
           THEN Resume(t, [Awaiting(Logged(fr, "state", stateName),
                                    "state", states[stateName])
                              EXCEPT !.pc = "states", !.i = p.i + 1])
           ELSE Resume(t, Reject(fr, p,
                                 StateNotDefined(stateName, FacOf(fr).name)))
    /\ UNCHANGED <<entityFactories, sequences, defs, facs, called>>

(* if (this.mapFunction) entity = await this.mapFunction(entity) *)
MapStep(t) ==
    /\ At(t, "make", "map")
    /\ LET fr == Top(tasks[t])
           m == FacOf(fr).mapFunction
       IN  Resume(t, [Awaiting(Logged(fr, "map", m), "map", m)
                         EXCEPT !.pc = "override", !.i = 1])
    /\ UNCHANGED <<entityFactories, sequences, defs, facs, called>>

(* Mutant of OverrideStep: the override fields are assigned to a copy of   *)
(* the entity, which the after-hooks do not get.                           *)
OverrideStepOnCopy(t) ==
    /\ At(t, "make", "override")
    /\ LET fr == Top(tasks[t])
       IN  Resume(t, [Logged(fr, "override", "") EXCEPT
                         !.pc = "after", !.i = 1])
    /\ UNCHANGED <<entityFactories, sequences, defs, facs, called>>

OverrideStep(t) ==
    /\ At(t, "make", "override")
    /\ LET fr == Top(tasks[t])
       IN  Resume(t, [Logged(fr, "override", "") EXCEPT
                         !.ent = ApplyOverrides(fr.ent, fr.ov),
                         !.pc = "after", !.i = 1])
    /\ UNCHANGED <<entityFactories, sequences, defs, facs, called>>

(* for (const hook of this.definition.afterMakeHooks) await hook(entity) *)
AfterHookStep(t) ==
    /\ At(t, "make", "after")
    /\ LET fr == Top(tasks[t])
           p == Pos(fr)
           hook == DefOf(fr).afterMakeHooks[p.i]
       IN  Resume(t, [Awaiting(Logged(fr, "after", hook), "after", hook)
                         EXCEPT !.pc = "after", !.i = p.i + 1])
    /\ UNCHANGED <<entityFactories, sequences, defs, facs, called>>

(* Mutant of UserDone: the override fields are assigned again after each   *)
(* after-hook, so that the overrides are the last write.                   *)
UserDoneOverridesLast(t) ==
    /\ Running(t)
    /\ \E j \in 1..Len(Top(tasks[t]).pending) :
          LET fr == Top(tasks[t])
              call == fr.pending[j]
              rest == SubSeq(fr.pending, 1, j - 1)
                      \o SubSeq(fr.pending, j + 1, Len(fr.pending))
              done == Effect(call, fr.ent)
          IN  IF Throws(call.name)
              THEN Resume(t, [Reject(Logged(fr, "failed", call.name),
                                     [pc |-> fr.pc, i |-> fr.i],
                                     ErrorOf(call.name))
                                 EXCEPT !.pending = rest])
              ELSE Resume(t, [Logged(fr, "done", call.name) EXCEPT
                                 !.ent = IF call.kind = "after"
                                         THEN ApplyOverrides(done, fr.ov)
                                         ELSE done,
                                 !.pending = rest])
    /\ UNCHANGED <<entityFactories, sequences, defs, facs, called>>

(* The promise of an awaited hook, state or map function settles: the      *)
(* function has done its work, or it has thrown and make() rejects with    *)
(* its error.                                                              *)
UserDone(t) ==
    /\ Running(t)
    /\ \E j \in 1..Len(Top(tasks[t]).pending) :
          LET fr == Top(tasks[t])
              call == fr.pending[j]
              rest == SubSeq(fr.pending, 1, j - 1)
                      \o SubSeq(fr.pending, j + 1, Len(fr.pending))
          IN  IF Throws(call.name)
              THEN Resume(t, [Reject(Logged(fr, "failed", call.name),
                                     [pc |-> fr.pc, i |-> fr.i],
                                     ErrorOf(call.name))
                                 EXCEPT !.pending = rest])
              ELSE Resume(t, [Logged(fr, "done", call.name) EXCEPT
                                 !.ent = Effect(call, fr.ent),
                                 !.pending = rest])
    /\ UNCHANGED <<entityFactories, sequences, defs, facs, called>>

(* Mutant of MakeManyNext: the make() of the loop is not awaited.           *)
MakeManyNextNoAwait(t) ==
    /\ Running(t)
    /\ Len(tasks[t]) >= 2
    /\ LET st == tasks[t]
           child == Top(st)
           fr == st[Len(st) - 1]
           got == [fr EXCEPT !.list = Append(@, child.ent),
                             !.log = @ \o Nest(child.log),
                             !.i = @ + 1]
           r == CallMake(SetTop(Pop(st), got), sequences, FacOf(fr), fr.slot,
                         fr.ov)
       IN  /\ fr.op = "makeMany"
           /\ child.pc # "rejected"
           /\ IF Len(got.list) < fr.amount
              THEN /\ tasks' = [tasks EXCEPT ![t] = r.stack]
                   /\ sequences' = r.sequences
              ELSE /\ tasks' = [tasks EXCEPT ![t] =
                          SetTop(Pop(st), [got EXCEPT !.pc = "return"])]
                   /\ UNCHANGED sequences
    /\ UNCHANGED <<entityFactories, defs, facs, called>>

(* Mutant of MakeManyNext: the makes after the first run without the     *)
(* activation list and the map function of the factory.                    *)
MakeManyNextBare(t) ==
    /\ Running(t)
    /\ Len(tasks[t]) >= 2
    /\ LET st == tasks[t]
           child == Top(st)
           fr == st[Len(st) - 1]
           got == [fr EXCEPT !.list = Append(@, child.ent),
                             !.log = @ \o Nest(child.log),
                             !.i = @ + 1]
           bare == [FacOf(fr) EXCEPT !.activeStates = <<>>,
                                     !.mapFunction = ""]
           r == CallMake(SetTop(Pop(st), got), sequences, bare, 0, fr.ov)
       IN  /\ fr.op = "makeMany"
           /\ Returned(child)
           /\ IF Len(got.list) < fr.amount
              THEN /\ tasks' = [tasks EXCEPT ![t] = r.stack]
                   /\ sequences' = r.sequences
              ELSE /\ tasks' = [tasks EXCEPT ![t] =
                          SetTop(Pop(st), [got EXCEPT !.pc = "return"])]
                   /\ UNCHANGED sequences
    /\ UNCHANGED <<entityFactories, defs, facs, called>>

(* makeMany: list[index] = await this.make(overrideParams), then the loop  *)
(* calls the next make() or returns the list.                              *)
MakeManyNext(t) ==
    /\ Running(t)
    /\ Len(tasks[t]) >= 2
    /\ LET st == tasks[t]
           child == Top(st)
           fr == st[Len(st) - 1]
           got == [fr EXCEPT !.list = Append(@, child.ent),
                             !.log = @ \o Nest(child.log),
                             !.i = @ + 1]
           r == CallMake(SetTop(Pop(st), got), sequences, FacOf(fr), fr.slot,
                         fr.ov)
       IN  /\ fr.op = "makeMany"
           /\ Returned(child)
           /\ IF Len(got.list) < fr.amount
              THEN /\ tasks' = [tasks EXCEPT ![t] = r.stack]
                   /\ sequences' = r.sequences
              ELSE /\ tasks' = [tasks EXCEPT ![t] =
                          SetTop(Pop(st), [got EXCEPT !.pc = "return"])]
                   /\ UNCHANGED sequences
    /\ UNCHANGED <<entityFactories, defs, facs, called>>

(* Mutant of Rethrow: makeMany returns the entities made before the        *)
(* failure.                                                                *)
RethrowReturnsPartial(t) ==
    /\ Running(t)
    /\ Len(tasks[t]) >= 2
    /\ LET st == tasks[t]
           child == Top(st)
           fr == st[Len(st) - 1]
       IN  /\ child.pc = "rejected"
           /\ fr.pc # "nested"
           /\ tasks' = [tasks EXCEPT ![t] =
                  SetTop(Pop(st),
                      [fr EXCEPT !.pc = IF fr.op = "makeMany" THEN "return"
                                        ELSE "rejected",
                                 !.err = child.err,
                                 !.log = @ \o Nest(child.log)])]
    /\ UNCHANGED <<entityFactories, sequences, defs, facs, called>>

(* Mutant of Rethrow: the caller throws a new error naming the factory.    *)
RethrowWraps(t) ==
    /\ Running(t)
    /\ Len(tasks[t]) >= 2
    /\ LET st == tasks[t]
           child == Top(st)
           fr == st[Len(st) - 1]
       IN  /\ child.pc = "rejected"
           /\ fr.pc # "nested"
           /\ tasks' = [tasks EXCEPT ![t] =
                  SetTop(Pop(st),
                      [fr EXCEPT !.pc = "rejected",
                                 !.err = CouldNotMake(child.fac.name),
                                 !.log = @ \o Nest(child.log)])]
    /\ UNCHANGED <<entityFactories, sequences, defs, facs, called>>

(* A rejected await of an association or of the make() of makeMany         *)
(* rethrows in the caller: no try/catch surrounds it.                      *)
Rethrow(t) ==
    /\ Running(t)
    /\ Len(tasks[t]) >= 2
    /\ LET st == tasks[t]
           child == Top(st)
           fr == st[Len(st) - 1]
       IN  /\ child.pc = "rejected"
           /\ fr.pc # "nested"
           /\ tasks' = [tasks EXCEPT ![t] =
                  SetTop(Pop(st),
                      [fr EXCEPT !.pc = "rejected", !.err = child.err,
                                 !.log = @ \o Nest(child.log)])]
    /\ UNCHANGED <<entityFactories, sequences, defs, facs, called>>

(* What the promise of a finished call settles with. *)
Outcome(fr) ==
    IF fr.pc = "rejected"
    THEN [status |-> "rejected", error |-> fr.err, value |-> <<>>]
    ELSE [status |-> "resolved", error |-> NoError,
          value |-> IF fr.op = "make" THEN <<fr.ent>> ELSE fr.list]

(* The promise of the client's call settles. *)
(* Mutant of Settle: a make() that has failed gives its sequence number    *)
(* back when its rejection reaches the caller.                             *)
SettleRollsBack(t) ==
    /\ Running(t)
    /\ Len(tasks[t]) = 1
    /\ Finished(Top(tasks[t]))
    /\ tasks' = [n \in 1..(Len(tasks) - 1) |->
                    IF n < t THEN tasks[n] ELSE tasks[n + 1]]
    /\ sequences' =
           IF Top(tasks[t]).pc = "rejected" /\ Top(tasks[t]).op = "make"
           THEN [sequences EXCEPT ![Top(tasks[t]).fac.name] = @ - 1]
           ELSE sequences
    /\ UNCHANGED <<entityFactories, defs, facs, called>>

Settle(t) ==
    /\ Running(t)
    /\ Len(tasks[t]) = 1
    /\ Finished(Top(tasks[t]))
    /\ tasks' = [n \in 1..(Len(tasks) - 1) |->
                    IF n < t THEN tasks[n] ELSE tasks[n + 1]]
    /\ UNCHANGED <<entityFactories, sequences, defs, facs, called>>

-----------------------------------------------------------------------------
(* Spec: the whole pipeline of make() on one entity, with a client that    *)
(* awaits every call before the next one.  User carries the hooks, the     *)
(* states and an association to Post.                                      *)

Init ==
    /\ entityFactories = <<>>
    /\ sequences = <<>>
    /\ defs = <<>>
    /\ facs = [s \in Slots |-> NoFac]
    /\ tasks = <<>>
    /\ called = Called("", <<>>, NoError)

User == [name |-> "User"]
Post == [name |-> "Post"]

Undefined(c) == getNameOfEntity(c) \notin DOMAIN entityFactories

DefsOf(c) == {d \in 1..Len(defs) : defs[d].entity = getNameOfEntity(c)}

DefineFirst(c, g) == Idle /\ Undefined(c) /\ Define(c, g)

PipeState == \E d \in DefsOf(User), sp \in StatePairs :
                 Idle /\ BuilderState(d, sp[1], sp[2])
PipeBefore == \E d \in DefsOf(User) : Idle /\ BuilderBeforeMake(d, "h2")
PipeAfter == \E d \in DefsOf(User) : Idle /\ BuilderAfterMake(d, "h2")
PipeAssoc == \E d \in DefsOf(User) :
                 Idle /\ BuilderAssociation(d, "author", Post, <<>>)
PipeFactory == \E s \in Slots : Idle /\ Factory(User, s)
PipeEFState == \E s \in Slots, n \in StateNames : Idle /\ EFState(s, n)
PipeEFStates == \E s \in Slots, a \in StateNames, b \in StateNames :
                    Idle /\ EFStates(s, <<a, b>>)
PipeEFMap == \E s \in Slots, m \in MapFns : Idle /\ EFMap(s, m)
PipeMake == \E s \in Slots, o \in Overrides : Idle /\ StartMake(s, o)

Next ==
    \/ \E c \in Classes : DefineFirst(c, "g2")
    \/ PipeState
    \/ PipeBefore
    \/ PipeAfter
    \/ PipeAssoc
    \/ PipeFactory
    \/ PipeEFState
    \/ PipeEFStates
    \/ PipeEFMap
    \/ PipeMake
    \/ \E t \in 1..Len(tasks) : ResolveStep(t)
    \/ \E t \in 1..Len(tasks) : BeforeHookStep(t)
    \/ \E t \in 1..Len(tasks) : AssociationStep(t)
    \/ \E t \in 1..Len(tasks) : AssociationReturn(t)
    \/ \E t \in 1..Len(tasks) : StateStep(t)
    \/ \E t \in 1..Len(tasks) : MapStep(t)
    \/ \E t \in 1..Len(tasks) : OverrideStep(t)
    \/ \E t \in 1..Len(tasks) : AfterHookStep(t)
    \/ \E t \in 1..Len(tasks) : UserDone(t)
    \/ \E t \in 1..Len(tasks) : Settle(t)

Spec == Init /\ [][Next]_vars

-----------------------------------------------------------------------------
(* SpecSeq: the sequence store.  Both entities are produced, with make()   *)
(* and makeMany(), Post may declare an association to User, and the client *)
(* resets the counters between productions.                                *)

SeqAssoc == \E d \in DefsOf(Post), n \in AssocCounts :
                Idle /\ BuilderAssociation(d, "author", User, n)
SeqFactory == \E c \in Classes, s \in Slots : Idle /\ Factory(c, s)
SeqMake == \E s \in Slots : Idle /\ StartMake(s, NoOverrides)
SeqMakeMany == \E s \in Slots, n \in 0..MaxAmount :
                   Idle /\ StartMakeMany(s, n, NoOverrides)
SeqReset == Idle /\ ResetSequences

NextSeq ==
    \/ \E c \in Classes : DefineFirst(c, "g1")
    \/ SeqAssoc
    \/ SeqFactory
    \/ SeqMake
    \/ SeqMakeMany
    \/ SeqReset
    \/ \E t \in 1..Len(tasks) : ResolveStep(t)
    \/ \E t \in 1..Len(tasks) : AssociationStep(t)
    \/ \E t \in 1..Len(tasks) : AssociationReturn(t)
    \/ \E t \in 1..Len(tasks) : OverrideStep(t)
    \/ \E t \in 1..Len(tasks) : MakeManyNext(t)
    \/ \E t \in 1..Len(tasks) : Rethrow(t)
    \/ \E t \in 1..Len(tasks) : Settle(t)

SpecSeq == Init /\ [][NextSeq]_vars

-----------------------------------------------------------------------------
(* SpecHooks: the hook lists of one definition, each hook one of two.      *)

HookBefore == \E d \in DefsOf(User), h \in HookFns :
                  Idle /\ BuilderBeforeMake(d, h)
HookAfter == \E d \in DefsOf(User), h \in HookFns :
                 Idle /\ BuilderAfterMake(d, h)
HookMake == \E s \in Slots : Idle /\ StartMake(s, NoOverrides)

NextHooks ==
    \/ DefineFirst(User, "g1")
    \/ HookBefore
    \/ HookAfter
    \/ PipeFactory
    \/ HookMake
    \/ \E t \in 1..Len(tasks) : ResolveStep(t)
    \/ \E t \in 1..Len(tasks) : BeforeHookStep(t)
    \/ \E t \in 1..Len(tasks) : OverrideStep(t)
    \/ \E t \in 1..Len(tasks) : AfterHookStep(t)
    \/ \E t \in 1..Len(tasks) : UserDone(t)
    \/ \E t \in 1..Len(tasks) : Settle(t)

SpecHooks == Init /\ [][NextHooks]_vars

-----------------------------------------------------------------------------
(* Helpers of the properties                                               *)

IsPrefix(a, b) == Len(a) <= Len(b) /\ a = SubSeq(b, 1, Len(a))

Own(log) == SelectSeq(log, LAMBDA ev : ev.d = 0)

RECURSIVE Concat(_)
Concat(ss) == IF ss = <<>> THEN <<>> ELSE Head(ss) \o Concat(Tail(ss))

(* The events of the calls of a list of user-supplied functions, each      *)
(* completed before the next is called.                                    *)
CallsThenDone(kind, names, fns) ==
    Concat([n \in 1..Len(names) |->
               <<Event(kind, names[n]), Event("done", fns[n])>>])

(* The log the order of section 4.4 of the specification prescribes for a  *)
(* make() on definition d with activation list active and map function m:  *)
(* draw, generator, nested values, before-hooks, associations (each with   *)
(* the whole log of its target), states, map, overrides, after-hooks.      *)
RECURSIVE PrescribedLog(_, _, _, _)
PrescribedLog(d, active, m, fuel) ==
    LET def == defs[d]
        target(a) == MapGet(entityFactories, getNameOfEntity(a.entityClass), 0)
        one(a) == PrescribedLog(target(a), <<>>, "", fuel - 1)
        targetLog(a) ==
            IF fuel = 0 \/ target(a) = 0 THEN <<>>
            ELSE IF a.isArray
                 THEN Nest(Nest(Concat([n \in 1..a.count[1] |-> one(a)])))
                 ELSE Nest(one(a))
    IN  <<Event("seq", def.entity), Event("gen", def.factory),
          Event("resolve", "")>>
        \o CallsThenDone("before", def.beforeMakeHooks, def.beforeMakeHooks)
        \o Concat([n \in 1..Len(def.associations) |->
                      <<Event("assoc", def.associations[n].fieldName)>>
                      \o targetLog(def.associations[n])])
        \o CallsThenDone("state", active,
                         [n \in 1..Len(active) |->
                             MapGet(def.states, active[n], "")])
        \o (IF m = "" THEN <<>> ELSE <<Event("map", m), Event("done", m)>>)
        \o <<Event("override", "")>>
        \o CallsThenDone("after", def.afterMakeHooks, def.afterMakeHooks)

Prescribed(fr) ==
    PrescribedLog(FacOf(fr).definition, FacOf(fr).activeStates,
                  FacOf(fr).mapFunction, MaxDepth)

(* What the probes of the test push to callOrder: the hook and state calls *)
(* of the make() itself.                                                   *)
CallOrder(fr) ==
    LET calls == SelectSeq(fr.log,
                     LAMBDA ev : ev.d = 0
                                 /\ ev.step \in {"before", "state", "after"})
    IN  [n \in 1..Len(calls) |-> calls[n].step]

MakeFrames ==
    {<<t, n>> \in (1..Len(tasks)) \X (1..MaxDepth) :
        n <= Len(tasks[t]) /\ tasks[t][n].op = "make"}

FrameAt(tn) == tasks[tn[1]][tn[2]]

IsTop(tn) == tn[2] = Len(tasks[tn[1]])

(* C1: within one make() the steps happen in the order draw, generator,    *)
(* nested values, before-hooks, associations, states, map, overrides,      *)
(* after-hooks, each finished before the next starts: the log of a make()  *)
(* in flight is a prefix of the prescribed log, that of a make() that      *)
(* returns is the prescribed log, and with one before-hook, one activated  *)
(* state and one after-hook the call order reads before, state, after.     *)
PipelineOrder ==
    \A tn \in MakeFrames :
        LET fr == FrameAt(tn)
        IN  /\ IsPrefix(fr.log, Prescribed(fr))
            /\ IsTop(tn) /\ Returned(fr) =>
                  /\ fr.log = Prescribed(fr)
                  /\ ( /\ Len(DefOf(fr).beforeMakeHooks) = 1
                       /\ Len(FacOf(fr).activeStates) = 1
                       /\ Len(DefOf(fr).afterMakeHooks) = 1 )
                     => CallOrder(fr) = <<"before", "state", "after">>

PipelineOrderWitness ==
    \E tn \in MakeFrames :
        LET fr == FrameAt(tn)
        IN  /\ tn[2] = 1
            /\ Returned(fr)
            /\ CallOrder(fr) = <<"before", "state", "after">>
            /\ Len(DefOf(fr).associations) = 1
            /\ fr.ent.author.kind = "one"
            /\ FacOf(fr).mapFunction # ""
            /\ DOMAIN fr.ov # {}

-----------------------------------------------------------------------------
(* What the steps before the overrides leave in the entity, computed from  *)
(* the definition and the EntityFactory alone.                             *)

RECURSIVE ApplyCalls(_, _, _)
ApplyCalls(kind, names, e) ==
    IF names = <<>> THEN e
    ELSE ApplyCalls(kind, Tail(names),
                    Effect([kind |-> kind, name |-> Head(names)], e))

BeforeOverrides(fr) ==
    LET def == DefOf(fr)
        fac == FacOf(fr)
        raw == resolveEntity(Generate(fac.factoryFunction,
                                      [name |-> fac.name], fr.seq))
        hooked == ApplyCalls("before", def.beforeMakeHooks, raw)
        stated == ApplyCalls("state",
                      [n \in 1..Len(fac.activeStates) |->
                          def.states[fac.activeStates[n]]], hooked)
    IN  IF fac.mapFunction = "" THEN stated
        ELSE MapApply(fac.mapFunction, stated)

(* The make() has just assigned the overrides and called no after-hook. *)
JustOverridden(fr) ==
    fr.op = "make" /\ fr.pc = "after" /\ fr.i = 1 /\ fr.pending = <<>>

(* C6: right after the override step every key of overrides holds the      *)
(* override value, whatever the generator, nested resolution, before-hooks,*)
(* associations, states and the map function wrote; every other field      *)
(* holds what those steps produced (the field of an association holds one  *)
(* entity of the target).                                                  *)
OverridePrecedence ==
    \A tn \in MakeFrames :
        LET fr == FrameAt(tn)
            was == BeforeOverrides(fr)
        IN  JustOverridden(fr) =>
              /\ \A f \in DOMAIN fr.ov : fr.ent[f] = fr.ov[f]
              /\ \A f \in {"type", "gen", "id", "role", "trail"} \ DOMAIN fr.ov :
                    fr.ent[f] = was[f]
              /\ "author" \notin DOMAIN fr.ov =>
                    IF DefOf(fr).associations = <<>>
                    THEN fr.ent.author = was.author
                    ELSE /\ fr.ent.author.kind = "one"
                         /\ fr.ent.author.items[1].type = "Post"

OverridePrecedenceWitness ==
    \E tn \in MakeFrames :
        LET fr == FrameAt(tn)
        IN  /\ JustOverridden(fr)
            /\ "role" \in DOMAIN fr.ov
            /\ fr.ent.role = "override"
            /\ fr.ent.trail # <<>>
            /\ BeforeOverrides(fr).role = "admin"
            /\ DefOf(fr).beforeMakeHooks # <<>>

OverrideAssociationWitness ==
    \E tn \in MakeFrames :
        LET fr == FrameAt(tn)
        IN  /\ JustOverridden(fr)
            /\ "author" \in DOMAIN fr.ov
            /\ DefOf(fr).associations # <<>>
            /\ fr.ent.author = CallerObj

-----------------------------------------------------------------------------
(* The state functions a make() has applied so far. *)
AppliedStates(fr) ==
    LET active == FacOf(fr).activeStates
        n == CASE fr.pc = "states" -> fr.i - 1 - Len(fr.pending)
               [] fr.pc \in {"override", "after"} -> Len(active)
               [] OTHER -> 0
    IN  [j \in 1..n |-> MapGet(DefOf(fr).states, active[j], "")]

StatesDone(fr) ==
    /\ fr.pc = "states"
    /\ fr.pending = <<>>
    /\ fr.i = Len(FacOf(fr).activeStates) + 1

(* C7: the states a make() applies are the activation list in the order    *)
(* state()/states() appended the names, duplicates applied again, each on  *)
(* the entity the previous one returned (trail is the list of the state    *)
(* functions applied); after the last state the field both wrote holds the *)
(* value of the last activated one.                                        *)
StatesInActivationOrder ==
    /\ \A tn \in MakeFrames :
          LET fr == FrameAt(tn)
              active == FacOf(fr).activeStates
          IN  /\ fr.pc # "rejected" => fr.ent.trail = AppliedStates(fr)
              /\ fr.pc = "rejected" =>
                    \E n \in 0..Len(active) :
                        fr.ent.trail =
                            [j \in 1..n |->
                                MapGet(DefOf(fr).states, active[j], "")]
              /\ StatesDone(fr) /\ active # <<>> =>
                    fr.ent.role =
                        StateApply(MapGet(DefOf(fr).states,
                                          active[Len(active)], ""),
                                   NullEnt).role
    /\ \A s \in Slots :
          LET active == facs[s].activeStates
          IN  /\ called.op = "state" =>
                    active # <<>> /\ active[Len(active)] = called.arg[1]
              /\ called.op = "states" =>
                    /\ Len(active) >= Len(called.arg)
                    /\ SubSeq(active, Len(active) - Len(called.arg) + 1,
                              Len(active)) = called.arg

StatesInActivationOrderWitness ==
    \E tn \in MakeFrames :
        LET fr == FrameAt(tn)
        IN  /\ StatesDone(fr)
            /\ FacOf(fr).activeStates = <<"verified", "admin">>
            /\ fr.ent.trail = <<"mkVerified", "mkAdmin">>
            /\ fr.ent.role = "admin"

StatesDuplicateWitness ==
    \E tn \in MakeFrames :
        LET fr == FrameAt(tn)
        IN  /\ StatesDone(fr)
            /\ fr.ent.trail = <<"mkAdmin", "mkAdmin">>

-----------------------------------------------------------------------------
UndefinedStates(fr) ==
    {j \in 1..Len(FacOf(fr).activeStates) :
        FacOf(fr).activeStates[j] \notin DOMAIN DefOf(fr).states}

FirstUndefined(fr) ==
    FacOf(fr).activeStates[
        CHOOSE j \in UndefinedStates(fr) :
            \A k \in UndefinedStates(fr) : j <= k]

(* The log of a make() whose before-hooks and associations have all        *)
(* completed.                                                              *)
ReachedStates(fr) ==
    LET plain == PrescribedLog(FacOf(fr).definition, <<>>, "", MaxDepth)
        upto == Len(plain) - 1 - 2 * Len(DefOf(fr).afterMakeHooks)
    IN  IsPrefix(SubSeq(plain, 1, upto), fr.log)

UndefinedStateError(fr) ==
    [status |-> "rejected",
     error |-> <<"State \"", FirstUndefined(fr), "\" is not defined for ",
                 FacOf(fr).name>>,
     value |-> <<>>]

-----------------------------------------------------------------------------
(* The calls and completions of hooks in the log of a make(). *)
HookLog(fr) ==
    SelectSeq(fr.log,
        LAMBDA ev : ev.d = 0 /\ ev.step \in {"before", "after", "done"})

PrescribedHookLog(def) ==
    CallsThenDone("before", def.beforeMakeHooks, def.beforeMakeHooks)
    \o CallsThenDone("after", def.afterMakeHooks, def.afterMakeHooks)

(* C9: the before-hooks run in the order beforeMake attached them, then    *)
(* the after-hooks in the order afterMake attached them, each hook         *)
(* completed before the next is called: beforeMake and afterMake put the   *)
(* hook at the end of its list, the hook log of a make() in flight is a    *)
(* prefix of call, completion, call, completion ... over the two lists,    *)
(* and that of a make() that returns is the whole of it.                   *)
HooksInAttachOrder ==
    /\ \A tn \in MakeFrames :
          LET fr == FrameAt(tn)
          IN  /\ IsPrefix(HookLog(fr), PrescribedHookLog(DefOf(fr)))
              /\ Returned(fr) => HookLog(fr) = PrescribedHookLog(DefOf(fr))
    /\ called.op = "builder.beforeMake" =>
          LET hooks == defs[called.arg[1]].beforeMakeHooks
          IN  hooks # <<>> /\ hooks[Len(hooks)] = called.arg[2]
    /\ called.op = "builder.afterMake" =>
          LET hooks == defs[called.arg[1]].afterMakeHooks
          IN  hooks # <<>> /\ hooks[Len(hooks)] = called.arg[2]

HooksInAttachOrderWitness ==
    \E tn \in MakeFrames :
        LET fr == FrameAt(tn)
        IN  /\ Returned(fr)
            /\ DefOf(fr).beforeMakeHooks = <<"h1", "h2">>
            /\ DefOf(fr).afterMakeHooks = <<"h2", "h1">>
            /\ HookLog(fr) =
                   << Event("before", "h1"), Event("done", "h1"),
                      Event("before", "h2"), Event("done", "h2"),
                      Event("after", "h2"), Event("done", "h2"),
                      Event("after", "h1"), Event("done", "h1") >>

-----------------------------------------------------------------------------
(* The sequence store                                                      *)

NoneRejected(st) == \A n \in 1..Len(st) : st[n].pc # "rejected"

Ids(list) == [j \in 1..Len(list) |-> list[j].id]

(* The make() calls of the stack that have drawn a number for key name     *)
(* and are not yet in the list of the makeMany() at the root.              *)
InFlightFor(st, name) ==
    Cardinality({n \in 2..Len(st) :
                    st[n].op = "make" /\ FacOf(st[n]).name = name})

(* C2: sequential make() calls for a key receive strictly increasing,      *)
(* gap-free sequence numbers in call order.  A make() of the client holds  *)
(* the number that was the counter, the counter being one more now; the    *)
(* make() calls of a makeMany() receive start, start + 1, ... in array     *)
(* order, start being the counter when makeMany() was called, so that a    *)
(* counter of 0 gives 0, 1, ..., N-1.                                      *)
SequenceGapFree ==
    \A t \in 1..Len(tasks) :
        LET st == tasks[t]
            root == st[1]
            name == FacOf(root).name
            start == sequences[name] - Len(root.list) - InFlightFor(st, name)
        IN  /\ root.op = "make" =>
                 /\ root.seq = sequences[name] - 1
                 /\ root.ent.id = root.seq
            /\ root.op = "makeMany" /\ NoneRejected(st) =>
                 /\ start >= 0
                 /\ Ids(root.list) = [j \in 1..Len(root.list) |-> start + j - 1]
                 /\ Len(st) >= 2 =>
                       /\ st[2].seq = start + Len(root.list)
                       /\ st[2].ent.id = st[2].seq
                 /\ Returned(root) => Len(root.list) = root.amount

SequenceGapFreeWitness ==
    \E t \in 1..Len(tasks) :
        LET root == tasks[t][1]
        IN  /\ root.op = "makeMany"
            /\ FacOf(root).name = "User"
            /\ Returned(root)
            /\ Ids(root.list) = <<0, 1, 2>>

(* The step calls make() for key name: a fresh make() frame holding the   *)
(* number that was the counter is on top of a stack.                       *)
FreshMake(name) ==
    \E t \in 1..Len(tasks') :
        LET fr == Top(tasks'[t])
        IN  /\ fr.op = "make"
            /\ fr.pc = "resolve"
            /\ fr.fac.name = name
            /\ fr.seq = MapGet(sequences, name, 0)
            /\ fr.ent.id = fr.seq
            /\ t > Len(tasks) \/ tasks'[t] # tasks[t]

(* C3: resetSequences() sets the counter of every tracked key to 0 and     *)
(* removes no key, and the next make() for a key whose counter it reset    *)
(* receives 0.                                                             *)
ResetZeroesEveryCounter ==
    [][ /\ called'.op = "resetSequences" =>
             /\ DOMAIN sequences' = DOMAIN sequences
             /\ \A k \in DOMAIN sequences' : sequences'[k] = 0
        /\ \A k \in DOMAIN sequences :
             (sequences[k] = 0 /\ sequences'[k] # 0) =>
                 (sequences'[k] = 1 /\ FreshMake(k))
        /\ (called.op = "resetSequences" /\ tasks = <<>> /\ tasks' # <<>>) =>
             LET fr == Top(tasks'[1])
             IN  fr.op = "make" => fr.seq = 0 /\ fr.ent.id = 0 ]_vars

ResetZeroesEveryCounterWitness ==
    /\ called.op = "resetSequences"
    /\ DOMAIN called.arg[1] = {"User", "Post"}
    /\ called.arg[1]["User"] = 2
    /\ called.arg[1]["Post"] = 3
    /\ DOMAIN sequences = {"User", "Post"}
    /\ \A k \in DOMAIN sequences : sequences[k] = 0

(* C4: the counters are independent per key: a step changes the counter of *)
(* a key only by calling make() for that key, which adds one, or by        *)
(* resetSequences(); a make() for one key leaves every other counter as it *)
(* is.                                                                     *)
CountersIndependent ==
    [][ \A k \in DOMAIN sequences' :
           MapGet(sequences, k, 0) # sequences'[k] =>
              \/ called'.op = "resetSequences" /\ tasks' = tasks
              \/ /\ FreshMake(k)
                 /\ sequences'[k] = MapGet(sequences, k, 0) + 1
                 /\ \A o \in DOMAIN sequences' \ {k} :
                        sequences'[o] = MapGet(sequences, o, 0) ]_vars

(* User, Post, User again: the second User holds 1 and Post has drawn 0. *)
CountersIndependentWitness ==
    /\ \A d \in 1..Len(defs) : defs[d].associations = <<>>
    /\ sequences = [k \in {"User", "Post"} |-> IF k = "User" THEN 2 ELSE 1]
    /\ \E t \in 1..Len(tasks) :
          LET root == tasks[t][1]
          IN  /\ root.op = "make"
              /\ FacOf(root).name = "User"
              /\ root.ent.id = 1

(* The sequence numbers of the association targets in the entities of a    *)
(* list, in the order they were produced.                                  *)
TargetIds(list) == Concat([j \in 1..Len(list) |-> Ids(list[j].author.items)])

Consecutive(ids) == \A j \in 1..Len(ids) : ids[j] = ids[1] + j - 1

(* The targets one association produces: count of them, or one.            *)
TargetsOf(assoc) == IF assoc.isArray THEN assoc.count[1] ELSE 1

RECURSIVE TargetsPerMake(_)
TargetsPerMake(assocs) ==
    IF assocs = <<>> THEN 0
    ELSE TargetsOf(Head(assocs)) + TargetsPerMake(Tail(assocs))

(* C5: a make() advances the counter of its own key by exactly 1 whatever  *)
(* associations it resolves, and the counter of the target key by 1 per    *)
(* target produced.  On Post, whose associations produce User entities     *)
(* into the field author (a later association replacing what an earlier    *)
(* one stored): the posts of a call hold consecutive Post numbers; with P  *)
(* targets per post, the last association storing L of them, the author    *)
(* of post j holds the User numbers first + (j-1)*P + (P-L) + 0..L-1; and   *)
(* when the call returns the Post counter is the first number plus the     *)
(* posts made and the User counter is first plus P per post.  With one     *)
(* target each and both counters at 0, post i holds i and its author i.    *)
OneDrawPerProduction ==
    \A t \in 1..Len(tasks) :
        LET st == tasks[t]
            root == st[1]
            list == IF root.op = "makeMany" THEN root.list
                    ELSE IF Returned(root) THEN <<root.ent>> ELSE <<>>
            own == Ids(list)
            assocs == DefOf(root).associations
            P == TargetsPerMake(assocs)
            L == IF assocs = <<>> THEN 0 ELSE TargetsOf(assocs[Len(assocs)])
            first == list[1].author.items[1].id - (P - L)
        IN  (FacOf(root).name = "Post" /\ NoneRejected(st) /\ list # <<>>) =>
              /\ Consecutive(own)
              /\ Returned(root) => sequences["Post"] = own[1] + Len(list)
              /\ P = 0 => \A j \in 1..Len(list) :
                              list[j].author.kind = "unset"
              /\ P > 0 =>
                    /\ first >= 0
                    /\ \A j \in 1..Len(list) :
                          Ids(list[j].author.items) =
                              [n \in 1..L |->
                                  first + (j - 1) * P + (P - L) + n - 1]
                    /\ Returned(root) =>
                          sequences["User"] = first + Len(list) * P
                    /\ (P = 1 /\ own[1] = 0 /\ first = 0) =>
                          TargetIds(list) = own

OneDrawPerProductionWitness ==
    \E t \in 1..Len(tasks) :
        LET root == tasks[t][1]
        IN  /\ root.op = "makeMany"
            /\ FacOf(root).name = "Post"
            /\ Returned(root)
            /\ Ids(root.list) = <<0, 1, 2>>
            /\ \A j \in 1..3 : root.list[j].author.kind = "one"
            /\ TargetIds(root.list) = <<0, 1, 2>>

OneDrawPerTargetWitness ==
    \E t \in 1..Len(tasks) :
        LET root == tasks[t][1]
        IN  /\ root.op = "makeMany"
            /\ FacOf(root).name = "Post"
            /\ Returned(root)
            /\ Ids(root.list) = <<1, 2>>
            /\ TargetIds(root.list) = <<0, 1, 2, 3>>

(* C10: factory(entity) for a key without a definition throws 'Factory for *)
(* <key> is not defined' and changes neither the registry, nor a counter,  *)
(* nor anything else of the engine.                                        *)
UndefinedFactoryThrows ==
    [][ (called'.op = "factory"
         /\ called'.arg[1] \notin DOMAIN entityFactories) =>
           /\ called'.error =
                  <<"Factory for ", called'.arg[1], " is not defined">>
           /\ UNCHANGED <<entityFactories, sequences, defs, facs, tasks>> ]_vars

UndefinedFactoryThrowsWitness ==
    /\ called.op = "factory"
    /\ called.error = <<"Factory for ", "Post", " is not defined">>
    /\ "Post" \notin DOMAIN entityFactories
    /\ "Post" \notin DOMAIN sequences
    /\ "User" \in DOMAIN sequences
    /\ sequences["User"] > 0
    /\ facs[1].name = "User"

-----------------------------------------------------------------------------
(* SpecBuild: build() next to make() on a definition with hooks and a      *)
(* factory with a map function, called also while a make() is in flight.   *)

BuildCall == \E s \in Slots, o \in Overrides : Build(s, o)

NextBuild ==
    \/ DefineFirst(User, "g1")
    \/ PipeBefore
    \/ PipeAfter
    \/ PipeFactory
    \/ PipeEFMap
    \/ HookMake
    \/ BuildCall
    \/ \E t \in 1..Len(tasks) : ResolveStep(t)
    \/ \E t \in 1..Len(tasks) : BeforeHookStep(t)
    \/ \E t \in 1..Len(tasks) : MapStep(t)
    \/ \E t \in 1..Len(tasks) : OverrideStep(t)
    \/ \E t \in 1..Len(tasks) : AfterHookStep(t)
    \/ \E t \in 1..Len(tasks) : UserDone(t)
    \/ \E t \in 1..Len(tasks) : Settle(t)

SpecBuild == Init /\ [][NextBuild]_vars

(* C11: build(params) bypasses the pipeline: the step calls no generator,  *)
(* hook, state, association or map function (no call starts, none in       *)
(* flight moves), changes no counter, and returns a fresh instance of the  *)
(* entity type whose fields are the provided ones, all others unset.  (A   *)
(* step of a call in flight changes tasks and leaves called as it is.)     *)
BuildBypassesPipeline ==
    [][ (called'.op = "build" /\ (called.op = "build" => tasks' = tasks)) =>
          /\ UNCHANGED <<entityFactories, sequences, defs, facs, tasks>>
          /\ \E s \in Slots, o \in Overrides :
                LET e == called'.arg[1]
                IN  /\ e.type = facs[s].name
                    /\ e.gen = ""
                    /\ e.id = -1
                    /\ e.trail = <<>>
                    /\ \A f \in DOMAIN o : e[f] = o[f]
                    /\ \A f \in {"cfg", "role", "author", "editor"} \ DOMAIN o :
                          e[f] = NullEnt[f] ]_vars

(* build({role}) on a factory with a map function whose definition has     *)
(* hooks, after it has made entities.                                      *)
BuildBypassesPipelineWitness ==
    /\ called.op = "build"
    /\ called.arg[1].role = "override"
    /\ called.arg[1].gen = ""
    /\ called.arg[1].author = Unset
    /\ sequences = [k \in {"User"} |-> 2]
    /\ facs[1].mapFunction # ""
    /\ defs[1].beforeMakeHooks # <<>>
    /\ defs[1].afterMakeHooks # <<>>

-----------------------------------------------------------------------------
(* SpecMany: makeMany(count, overrides) on a definition with a before-hook *)
(* whose generator is g1, or g3, which fails from its third sequence       *)
(* number on.                                                              *)

ManyDefine == \E g \in {"g1", "g3"} : DefineFirst(User, g)
ManyCall == \E s \in Slots, n \in 0..MaxAmount, o \in Overrides :
                Idle /\ StartMakeMany(s, n, o)

NextMany ==
    \/ ManyDefine
    \/ PipeBefore
    \/ PipeFactory
    \/ ManyCall
    \/ \E t \in 1..Len(tasks) : ResolveStep(t)
    \/ \E t \in 1..Len(tasks) : BeforeHookStep(t)
    \/ \E t \in 1..Len(tasks) : OverrideStep(t)
    \/ \E t \in 1..Len(tasks) : UserDone(t)
    \/ \E t \in 1..Len(tasks) : MakeManyNext(t)
    \/ \E t \in 1..Len(tasks) : Rethrow(t)
    \/ \E t \in 1..Len(tasks) : Settle(t)

SpecMany == Init /\ [][NextMany]_vars

(* The calls of makeMany() by the client that are in flight. *)
RootMakeManys == {t \in 1..Len(tasks) : tasks[t][1].op = "makeMany"}

(* The make() calls a makeMany() frame has started, by its log and the     *)
(* frames above it.                                                        *)
MakesStarted(st) ==
    Len(SelectSeq(st[1].log, LAMBDA ev : ev.d = 1 /\ ev.step = "seq"))
    + (IF Len(st) >= 2 THEN 1 ELSE 0)

(* C12: makeMany(count, overrides) calls make(overrides) exactly count     *)
(* times, one after the other: its log is the whole log of the first       *)
(* make(), then that of the second, and so on, at most one make() is in    *)
(* flight, the k-th entity of the list is the result of the k-th make()    *)
(* (it holds the k-th sequence number drawn and the overrides), and the    *)
(* list returned has exactly count entities.                               *)
MakeManySequential ==
    \A t \in RootMakeManys :
        LET st == tasks[t]
            root == st[1]
            done == Len(root.list)
        IN  NoneRejected(st) =>
              /\ root.log = Concat([k \in 1..done |-> Nest(Prescribed(root))])
              /\ MakesStarted(st) <= root.amount
              /\ Len(st) <= 2
              /\ Len(st) = 2 =>
                    /\ MakesStarted(st) = done + 1
                    /\ st[2].op = "make"
                    /\ st[2].ov = root.ov
                    /\ st[2].seq = sequences[FacOf(root).name] - 1
              /\ Len(st) = 1 <=> Returned(root)
              /\ Returned(root) => done = root.amount
              /\ \A k \in 1..done :
                    /\ root.list[k].id =
                           sequences[FacOf(root).name]
                               - MakesStarted(st) + k - 1
                    /\ \A f \in DOMAIN root.ov : root.list[k][f] = root.ov[f]
                    /\ "role" \notin DOMAIN root.ov =>
                           root.list[k].role =
                               IF DefOf(root).beforeMakeHooks = <<>>
                               THEN "generated" ELSE "hooked"

MakeManySequentialWitness ==
    \E t \in RootMakeManys :
        LET root == tasks[t][1]
        IN  /\ Returned(root)
            /\ root.amount = 3
            /\ Ids(root.list) = <<1, 2, 3>>
            /\ root.ov # NoOverrides
            /\ \A k \in 1..3 : root.list[k].role = "override"
            /\ DefOf(root).beforeMakeHooks # <<>>

(* A make() of the batch has failed. *)
BatchFailed(st) ==
    \/ \E n \in 1..Len(st) : st[n].pc = "rejected"
    \/ \E n \in 1..Len(st[1].log) : st[1].log[n].step = "failed"

(* C13: makeMany is all-or-nothing: when the k-th make() of the batch has  *)
(* failed, makeMany rejects with the error of that make(), no further      *)
(* make() has been started (k makes, k-1 of them in the list it was        *)
(* collecting) and its promise carries none of the k-1 entities.           *)
MakeManyAllOrNothing ==
    \A t \in RootMakeManys :
        LET st == tasks[t]
            root == st[1]
        IN  BatchFailed(st) =>
              /\ MakesStarted(st) = Len(root.list) + 1
              /\ MakesStarted(st) <= root.amount
              /\ ~Returned(root)
              /\ Top(st).pc = "rejected"
              /\ Top(st).err = ErrorOf("g3")
              /\ Len(st) = 1 =>
                    /\ Outcome(root).status = "rejected"
                    /\ Outcome(root).error = ErrorOf("g3")
                    /\ Outcome(root).value = <<>>

(* The third make() of makeMany(3) fails after two entities were made. *)
MakeManyAllOrNothingWitness ==
    \E t \in RootMakeManys :
        LET root == tasks[t][1]
        IN  /\ Len(tasks[t]) = 1
            /\ root.pc = "rejected"
            /\ root.amount = 3
            /\ Ids(root.list) = <<0, 1>>
            /\ Outcome(root).value = <<>>
            /\ sequences["User"] = 3

(* The second make() of makeMany(3) fails: the third is never started. *)
MakeManyStopsWitness ==
    \E t \in RootMakeManys :
        LET root == tasks[t][1]
        IN  /\ Len(tasks[t]) = 1
            /\ root.pc = "rejected"
            /\ root.amount = 3
            /\ Ids(root.list) = <<1>>
            /\ sequences["User"] = 3

-----------------------------------------------------------------------------
(* SpecErr: user-supplied functions that fail.  Post has hooks, a state,   *)
(* a map function, an association to User or a generator that puts         *)
(* factory(User) in a field; the generator of either entity, a hook, the   *)
(* state function or the map function fails.                               *)

(* The client writes the definitions before it asks for a factory. *)
Defining == Idle /\ \A s \in Slots : facs[s] = NoFac

ErrDefineUser == \E g \in {"g1", "gFail"} : DefineFirst(User, g)
ErrDefinePost == \E g \in {"g1", "gFail", "gSub"} : DefineFirst(Post, g)
(* The failing hook is the first before-hook, h2 is attached after it. *)
ErrBefore == \E d \in DefsOf(Post) :
                 /\ Defining
                 /\ BuilderBeforeMake(d, IF defs[d].beforeMakeHooks = <<>>
                                         THEN "hFail" ELSE "h2")
ErrAfter == \E d \in DefsOf(Post) : Defining /\ BuilderAfterMake(d, "h2")
ErrState == \E d \in DefsOf(Post) :
                Defining /\ BuilderState(d, "broken", "mkBroken")
ErrAssoc == \E d \in DefsOf(Post) :
                Defining /\ BuilderAssociation(d, "author", User, <<>>)
ErrFactory == \E s \in Slots : Idle /\ Factory(Post, s)
ErrEFState == \E s \in Slots : Idle /\ EFState(s, "broken")
ErrEFMap == \E s \in Slots : Idle /\ EFMap(s, "mFail")
ErrMake == \E s \in Slots : Idle /\ StartMake(s, NoOverrides)
ErrMakeMany == \E s \in Slots : Idle /\ StartMakeMany(s, 2, NoOverrides)

NextErr ==
    \/ ErrDefineUser
    \/ ErrDefinePost
    \/ ErrBefore
    \/ ErrAfter
    \/ ErrState
    \/ ErrAssoc
    \/ ErrFactory
    \/ ErrEFState
    \/ ErrEFMap
    \/ ErrMake
    \/ ErrMakeMany
    \/ \E t \in 1..Len(tasks) : ResolveStep(t)
    \/ \E t \in 1..Len(tasks) : NestedReturn(t)
    \/ \E t \in 1..Len(tasks) : NestedCatch(t)
    \/ \E t \in 1..Len(tasks) : BeforeHookStep(t)
    \/ \E t \in 1..Len(tasks) : AssociationStep(t)
    \/ \E t \in 1..Len(tasks) : AssociationReturn(t)
    \/ \E t \in 1..Len(tasks) : StateStep(t)
    \/ \E t \in 1..Len(tasks) : MapStep(t)
    \/ \E t \in 1..Len(tasks) : OverrideStep(t)
    \/ \E t \in 1..Len(tasks) : AfterHookStep(t)
    \/ \E t \in 1..Len(tasks) : UserDone(t)
    \/ \E t \in 1..Len(tasks) : MakeManyNext(t)
    \/ \E t \in 1..Len(tasks) : Rethrow(t)
    \/ \E t \in 1..Len(tasks) : Settle(t)

SpecErr == Init /\ [][NextErr]_vars

(* Every frame in flight, of make() or of makeMany(). *)
Frames ==
    {<<t, n>> \in (1..Len(tasks)) \X (1..MaxDepth) : n <= Len(tasks[t])}

(* The place in a log where a user-supplied function failed, 0 if none. *)
FailedAt(log) ==
    IF \E n \in 1..Len(log) : log[n].step = "failed"
    THEN CHOOSE n \in 1..Len(log) : log[n].step = "failed"
    ELSE 0

(* The failure happened inside the make() of a sub-factory attribute that  *)
(* the make() of this log was resolving.                                   *)
ThroughSubFactory(log) ==
    \E n \in 1..Len(log) :
        /\ log[n].step = "nested"
        /\ log[n].d < log[FailedAt(log)].d
        /\ \A m \in (n + 1)..Len(log) :
              ~(log[m].step = "resolve" /\ log[m].d = log[n].d)

(* What C14 states about a frame whose call has seen a user-supplied       *)
(* function fail: the call rejects, nothing was called after the failure,  *)
(* and the promise of the client's call carries no entity.                 *)
AbortsAtFailure(tn) ==
    LET fr == FrameAt(tn)
        k == FailedAt(fr.log)
    IN  /\ fr.pc = "rejected"
        /\ fr.pending = <<>>
        /\ k = Len(fr.log)
        /\ IsTop(tn)
        /\ tn[2] = 1 => /\ Outcome(fr).status = "rejected"
                        /\ Outcome(fr).value = <<>>

(* C14 as stated: the error of a failing generator, hook, state or map     *)
(* function reaches the caller of make()/makeMany() unmodified, also when  *)
(* the failing generator belongs to an entity produced through an          *)
(* association or through a nested sub-factory attribute, and no later     *)
(* step of that make() executes.                                           *)
ErrorsReachCallerUnmodified ==
    \A tn \in Frames :
        LET fr == FrameAt(tn)
            k == FailedAt(fr.log)
        IN  k # 0 => /\ AbortsAtFailure(tn)
                     /\ fr.err = ErrorOf(fr.log[k].name)

(* C14, amended: the error reaches the caller unmodified through make(),   *)
(* makeMany() and associations, and no later step of that make() executes; *)
(* but the make() that was resolving a sub-factory attribute rejects with  *)
(* a new error 'Could not make <name of the sub-factory>' in place of the  *)
(* error of the sub-factory's generator.                                   *)
ErrorsPropagate ==
    \A tn \in Frames :
        LET fr == FrameAt(tn)
            k == FailedAt(fr.log)
        IN  k # 0 => /\ AbortsAtFailure(tn)
                     /\ fr.err = IF ThroughSubFactory(fr.log)
                                 THEN CouldNotMake("User")
                                 ELSE ErrorOf(fr.log[k].name)

(* The generator of an association target fails inside makeMany(2) on a    *)
(* definition with an after-hook: the client gets the generator's error.   *)
ErrorsPropagateWitness ==
    \E t \in 1..Len(tasks) :
        LET root == tasks[t][1]
        IN  /\ Len(tasks[t]) = 1
            /\ root.op = "makeMany"
            /\ root.pc = "rejected"
            /\ root.err = ErrorOf("gFail")
            /\ root.log[FailedAt(root.log)].d = 2
            /\ DefOf(root).afterMakeHooks # <<>>
            /\ DefOf(root).associations # <<>>

(* A before-hook fails and the hook attached after it is never called. *)
HookFailureWitness ==
    \E t \in 1..Len(tasks) :
        LET root == tasks[t][1]
        IN  /\ Len(tasks[t]) = 1
            /\ root.op = "make"
            /\ root.err = ErrorOf("hFail")
            /\ DefOf(root).beforeMakeHooks = <<"hFail", "h2">>

(* The generator of a sub-factory attribute fails: the client gets         *)
(* 'Could not make User'.                                                  *)
SubFactoryFailureWitness ==
    \E t \in 1..Len(tasks) :
        LET root == tasks[t][1]
        IN  /\ Len(tasks[t]) = 1
            /\ root.op = "make"
            /\ root.pc = "rejected"
            /\ FailedAt(root.log) # 0
            /\ root.log[FailedAt(root.log)].name = "gFail"
            /\ root.err = CouldNotMake("User")

-----------------------------------------------------------------------------
(* SpecAssoc: associations.  Post declares associations to User in the     *)
(* fields author and editor, with or without a count; its generator g2     *)
(* has put a value in author.  User and Post register the state admin,     *)
(* User has hooks, and the client activates admin on the Post factory it   *)
(* created with or without settings.                                       *)

(* The target User is defined before Post. *)
AsDefine == \/ DefineFirst(User, "g1")
            \/ ~Undefined(User) /\ DefineFirst(Post, "g2")
(* admin is registered on User first, then on Post. *)
AsState == \E d \in 1..Len(defs) :
               /\ Defining
               /\ defs[d].entity = "Post" =>
                      \E u \in DefsOf(User) : "admin" \in DOMAIN defs[u].states
               /\ BuilderState(d, "admin", "mkAdmin")
AsBefore == \E d \in DefsOf(User) :
                /\ Defining
                /\ defs[d].beforeMakeHooks = <<>>
                /\ BuilderBeforeMake(d, "h2")
AsAfter == \E d \in DefsOf(User) :
               /\ Defining
               /\ defs[d].beforeMakeHooks # <<>>
               /\ defs[d].afterMakeHooks = <<>>
               /\ BuilderAfterMake(d, "h2")
(* An array association has 2 targets in author, 3 in editor. *)
AsCounts(field) == IF field = "author" THEN {<<>>, <<2>>} ELSE {<<>>, <<3>>}
AsAssoc == \E d \in DefsOf(Post), f \in {"author", "editor"} :
               \E n \in AsCounts(f) :
                   Defining /\ BuilderAssociation(d, f, User, n)
AsFactory == \E s \in Slots, settings \in {"", "s1"} :
                 Defining /\ FactoryWith(Post, settings, s)
AsEFState == \E s \in Slots :
                 /\ Idle
                 /\ MapGet(sequences, Post.name, 0) = 0
                 /\ facs[s] # NoFac
                 /\ facs[s].activeStates = <<>>
                 /\ EFState(s, "admin")
AsMake == \E s \in Slots : Idle /\ StartMake(s, NoOverrides)

NextAssoc ==
    \/ AsDefine
    \/ AsState
    \/ AsBefore
    \/ AsAfter
    \/ AsAssoc
    \/ AsFactory
    \/ AsEFState
    \/ AsMake
    \/ \E t \in 1..Len(tasks) : ResolveStep(t)
    \/ \E t \in 1..Len(tasks) : BeforeHookStep(t)
    \/ \E t \in 1..Len(tasks) : AssociationStep(t)
    \/ \E t \in 1..Len(tasks) : AssociationReturn(t)
    \/ \E t \in 1..Len(tasks) : StateStep(t)
    \/ \E t \in 1..Len(tasks) : OverrideStep(t)
    \/ \E t \in 1..Len(tasks) : AfterHookStep(t)
    \/ \E t \in 1..Len(tasks) : UserDone(t)
    \/ \E t \in 1..Len(tasks) : MakeManyNext(t)
    \/ \E t \in 1..Len(tasks) : Settle(t)

SpecAssoc == Init /\ [][NextAssoc]_vars

(* The associations of its definition that a make() frame has resolved. *)
AssocsDone(fr) ==
    CASE fr.pc \in {"resolve", "nested", "before"} -> 0
      [] fr.pc = "rejected" -> 0
      [] fr.pc = "assoc" -> fr.i - 1
      [] OTHER -> Len(DefOf(fr).associations)

(* The last of the first n associations that names the field, 0 if none. *)
LastFor(assocs, n, field) ==
    LET named == {k \in 1..n : assocs[k].fieldName = field}
    IN  IF named = {} THEN 0
        ELSE CHOOSE k \in named : \A j \in named : j <= k

(* The make() frames of Post that have not failed. *)
PostFrames ==
    {tn \in MakeFrames :
        FacOf(FrameAt(tn)).name = "Post" /\ FrameAt(tn).pc # "rejected"}

(* C15: an association declared with a count n > 1 makes its field an      *)
(* array of exactly n entities of the target type, each from its own        *)
(* make() of the target factory: once the association is resolved (and      *)
(* until a later association names the same field), the field holds n      *)
(* User entities made by the generator of User, that carry n consecutive   *)
(* numbers of the key User, all drawn already.                              *)
ArrayAssociation ==
    \A tn \in PostFrames : \A field \in {"author", "editor"} :
        LET fr == FrameAt(tn)
            assocs == DefOf(fr).associations
            k == LastFor(assocs, AssocsDone(fr), field)
            n == assocs[k].count[1]
            v == fr.ent[field]
        IN  (k # 0 /\ assocs[k].count # <<>> /\ assocs[k].count[1] > 1) =>
              /\ v.kind = "many"
              /\ Len(v.items) = n
              /\ \A j \in 1..n :
                    /\ v.items[j].type = "User"
                    /\ v.items[j].gen = "g1"
                    /\ v.items[j].id = v.items[1].id + (j - 1)
                    /\ v.items[j].id >= 0
                    /\ v.items[j].id < sequences["User"]

(* A returned post whose author holds the users 0, 1 and whose editor      *)
(* holds the users 2, 3, 4.                                                 *)
ArrayAssociationWitness ==
    \E tn \in PostFrames :
        LET fr == FrameAt(tn)
        IN  /\ Returned(fr)
            /\ Len(DefOf(fr).associations) = 2
            /\ fr.ent.author.kind = "many"
            /\ Ids(fr.ent.author.items) = <<0, 1>>
            /\ fr.ent.editor.kind = "many"
            /\ Ids(fr.ent.editor.items) = <<2, 3, 4>>

(* The fields named by the association steps a make() has started. *)
AssocsStarted(fr) ==
    LET evs == SelectSeq(Own(fr.log), LAMBDA ev : ev.step = "assoc")
    IN  [k \in 1..Len(evs) |-> evs[k].name]

(* What the generator and nested resolution leave in a field of a post. *)
GeneratedField(fr, field) ==
    resolveEntity(Generated(FacOf(fr), fr.seq).ent)[field]

(* C16: associations are resolved in declaration order and each assigns    *)
(* its target to the field it names, over what the generator or nested     *)
(* resolution had put there.  In a make() of Post past resolution: the      *)
(* association steps started are the declared ones, in order; a field no   *)
(* resolved association names holds the generated and resolved value; a     *)
(* field that one names holds the target of the last of them, a single      *)
(* User when no count was given; and, every post producing P targets for   *)
(* its associations together, the target of association k of post number   *)
(* s starts at the User number s * P + (targets of associations 1..k-1).    *)
AssociationsInOrder ==
    \A tn \in PostFrames :
        LET fr == FrameAt(tn)
            assocs == DefOf(fr).associations
            done == AssocsDone(fr)
            started == AssocsStarted(fr)
            P == TargetsPerMake(assocs)
        IN  /\ Len(started) \in {done, done + 1}
            /\ Len(started) <= Len(assocs)
            /\ \A k \in 1..Len(started) : started[k] = assocs[k].fieldName
            /\ fr.pc \notin {"resolve", "nested"} =>
                 \A field \in {"author", "editor"} :
                    LET k == LastFor(assocs, done, field)
                        v == fr.ent[field]
                        first == fr.seq * P
                                   + TargetsPerMake(SubSeq(assocs, 1, k - 1))
                    IN  IF k = 0
                        THEN v = GeneratedField(fr, field)
                        ELSE /\ assocs[k].count = <<>> => v.kind = "one"
                             /\ v.kind \in {"one", "many"}
                             /\ Len(v.items) = TargetsOf(assocs[k])
                             /\ v.items[1].type = "User"
                             /\ v.items[1].id = first

(* A returned second post whose associations author, editor, in that       *)
(* order, put user 2 over the generated author and user 3 in editor.       *)
AssociationsInOrderWitness ==
    \E tn \in PostFrames :
        LET fr == FrameAt(tn)
        IN  /\ Returned(fr)
            /\ fr.seq = 1
            /\ AssocsStarted(fr) = <<"author", "editor">>
            /\ GeneratedField(fr, "author") = CallerObj
            /\ fr.ent.author.kind = "one"
            /\ fr.ent.author.items[1].id = 2
            /\ fr.ent.editor.kind = "one"
            /\ fr.ent.editor.items[1].id = 3

(* A returned post whose second association replaced the author stored by  *)
(* the first.                                                               *)
AssociationOverwritesWitness ==
    \E tn \in PostFrames :
        LET fr == FrameAt(tn)
        IN  /\ Returned(fr)
            /\ AssocsStarted(fr) = <<"author", "author">>
            /\ fr.ent.author.kind = "one"
            /\ fr.ent.author.items[1].id = 1
            /\ fr.ent.editor = Unset

(* The make() frames of association targets: the calls that no factory of  *)
(* the client made.                                                        *)
TargetFrames == {tn \in MakeFrames : FrameAt(tn).slot = 0}

(* The entities a field holds. *)
Held(v) == IF v.kind \in {"one", "many"}
           THEN {v.items[j] : j \in 1..Len(v.items)} ELSE {}

(* The calls of hooks of the given kind made below a make(). *)
NestedCalls(log, kind) ==
    Len(SelectSeq(log, LAMBDA ev : ev.d > 0 /\ ev.step = kind))

(* C17: an association target comes from a fresh EntityFactory: the         *)
(* factory of a target make() is the one factory(User) returns, with an     *)
(* empty activation list, no settings and no map function, and the call    *)
(* has no overrides; so the target carries no settings and no state was    *)
(* applied to it, whatever the parent factory activated and whatever the   *)
(* target's definition registers; its log is the one prescribed for a      *)
(* make() without states and map, with every hook of User called once;     *)
(* and a returned post has seen the before- and the after-hooks of User    *)
(* called once per target produced.                                         *)
FreshTargetFactory ==
    /\ \A tn \in TargetFrames :
          LET fr == FrameAt(tn)
              plain == PrescribedLog(fr.fac.definition, <<>>, "", MaxDepth)
          IN  /\ fr.fac = factory(entityFactories, defs, User).fac
              /\ fr.fac.activeStates = <<>>
              /\ fr.fac.settings = ""
              /\ fr.fac.mapFunction = ""
              /\ fr.ov = NoOverrides
              /\ fr.ent.cfg = ""
              /\ fr.ent.trail = <<>>
              /\ fr.ent.role # "admin"
              /\ IsPrefix(fr.log, plain)
              /\ Returned(fr) => fr.log = plain
    /\ \A tn \in MakeFrames :
          LET fr == FrameAt(tn)
              udef == defs[entityFactories["User"]]
              P == TargetsPerMake(DefOf(fr).associations)
          IN  FacOf(fr).name = "Post" =>
                /\ \A field \in {"author", "editor"} :
                      \A e \in Held(fr.ent[field]) :
                          /\ e.type = "User"
                          /\ e.cfg = ""
                          /\ e.trail = <<>>
                          /\ e.role # "admin"
                /\ Returned(fr) =>
                      /\ NestedCalls(fr.log, "before")
                            = P * Len(udef.beforeMakeHooks)
                      /\ NestedCalls(fr.log, "after")
                            = P * Len(udef.afterMakeHooks)
                      /\ NestedCalls(fr.log, "state") = 0

(* A returned post made with settings and the state admin activated, whose *)
(* two authors come from a definition that registers admin and has hooks:  *)
(* the post is an admin, its authors are not.                               *)
FreshTargetFactoryWitness ==
    \E tn \in MakeFrames :
        LET fr == FrameAt(tn)
            udef == defs[entityFactories["User"]]
        IN  /\ FacOf(fr).name = "Post"
            /\ Returned(fr)
            /\ fr.ent.cfg = "s1"
            /\ fr.ent.trail = <<"mkAdmin">>
            /\ "admin" \in DOMAIN udef.states
            /\ udef.beforeMakeHooks # <<>>
            /\ udef.afterMakeHooks # <<>>
            /\ fr.ent.author.kind = "many"
            /\ \A e \in Held(fr.ent.author) : e.trail = <<>> /\ e.cfg = ""
            /\ NestedCalls(fr.log, "before") = 2

-----------------------------------------------------------------------------
(* SpecRedef: re-registration.  Post is defined again and again, with the  *)
(* generator g1 or g2; states, hooks and an association to User are        *)
(* attached through the builder of any of its definitions, the replaced    *)
(* ones included; factories are created before and after.                  *)

RdDefine == \/ DefineFirst(User, "g1")
            \/ \E g \in {"g1", "g2"} :
                  Idle /\ ~Undefined(User) /\ Define(Post, g)
(* The builder calls on one definition are chained in the order state,    *)
(* beforeMake, afterMake, association.                                     *)
RdState == \E d \in DefsOf(Post) :
               /\ Idle
               /\ defs[d] = NewDefinition(Post, defs[d].factory)
               /\ BuilderState(d, "admin", "mkAdmin")
RdBefore == \E d \in DefsOf(Post) :
                /\ Idle
                /\ "admin" \in DOMAIN defs[d].states
                /\ defs[d].beforeMakeHooks = <<>>
                /\ defs[d].afterMakeHooks = <<>>
                /\ BuilderBeforeMake(d, "h2")
RdAfter == \E d \in DefsOf(Post) :
               /\ Idle
               /\ defs[d].beforeMakeHooks # <<>>
               /\ defs[d].afterMakeHooks = <<>>
               /\ defs[d].associations = <<>>
               /\ BuilderAfterMake(d, "h2")
RdAssoc == \E d \in DefsOf(Post) :
               /\ Idle
               /\ defs[d].afterMakeHooks # <<>>
               /\ defs[d].associations = <<>>
               /\ BuilderAssociation(d, "author", User, <<>>)
RdFactory == \E s \in Slots : Idle /\ Factory(Post, s)
RdEFState == \E s \in Slots :
                 /\ Idle
                 /\ facs[s] # NoFac
                 /\ facs[s].activeStates = <<>>
                 /\ EFState(s, "admin")
RdMake == \E s \in Slots : Idle /\ StartMake(s, NoOverrides)

NextRedef ==
    \/ RdDefine
    \/ RdState
    \/ RdBefore
    \/ RdAfter
    \/ RdAssoc
    \/ RdFactory
    \/ RdEFState
    \/ RdMake
    \/ \E t \in 1..Len(tasks) : ResolveStep(t)
    \/ \E t \in 1..Len(tasks) : BeforeHookStep(t)
    \/ \E t \in 1..Len(tasks) : AssociationStep(t)
    \/ \E t \in 1..Len(tasks) : AssociationReturn(t)
    \/ \E t \in 1..Len(tasks) : StateStep(t)
    \/ \E t \in 1..Len(tasks) : OverrideStep(t)
    \/ \E t \in 1..Len(tasks) : AfterHookStep(t)
    \/ \E t \in 1..Len(tasks) : UserDone(t)
    \/ \E t \in 1..Len(tasks) : Settle(t)

SpecRedef == Init /\ [][NextRedef]_vars

(* The definitions registered before d under the same key. *)
ReplacedBy(d) == {k \in 1..(d - 1) : defs[k].entity = defs[d].entity}

(* A step of define(). *)
DefineStep == Len(defs') = Len(defs) + 1

(* define() leaves a new definition with the new generator and without    *)
(* states, hooks and associations under the key, the definitions made      *)
(* before are untouched, and factory() now returns a factory on the new    *)
(* definition with the new generator.                                      *)
DefineReplaces ==
    DefineStep =>
        LET d == Len(defs')
            c == [name |-> defs'[d].entity]
            f == factory(entityFactories', defs', c)
        IN  /\ called'.op = "define"
            /\ \E g \in GenFns : defs'[d] = NewDefinition(c, g)
            /\ \A k \in 1..Len(defs) : defs'[k] = defs[k]
            /\ entityFactories'[c.name] = d
            /\ f.ok
            /\ f.fac.definition = d
            /\ f.fac.factoryFunction = defs'[d].factory

(* factory() hands out the definition registered last under the key. *)
FactoryUsesLatest ==
    \A s \in Slots :
        (called'.op = "factory" /\ facs'[s] # facs[s]) =>
            LET d == facs'[s].definition
            IN  /\ d = entityFactories[facs'[s].name]
                /\ ReplacedBy(d) = {k \in DefsOf(Post) : k # d}
                /\ facs'[s].factoryFunction = defs[d].factory

(* A make() of a client factory runs on the definition of its factory      *)
(* alone: the entity comes from the generator of that definition, the log  *)
(* is the one prescribed for that definition, and an activated state the   *)
(* definition does not register fails the call, whatever the definitions   *)
(* it replaced had.                                                        *)
MakeSeesOwnDefinition ==
    \A tn \in MakeFrames :
        LET fr == FrameAt(tn)
            d == FacOf(fr).definition
        IN  fr.slot # 0 =>
              /\ FacOf(fr).factoryFunction = defs[d].factory
              /\ fr.ent.gen = defs[d].factory
              /\ fr.pc # "rejected" => IsPrefix(fr.log, Prescribed(fr))
              /\ Returned(fr) => fr.log = Prescribed(fr)
              /\ fr.pc = "rejected" =>
                    /\ "admin" \notin DOMAIN defs[d].states
                    /\ fr.err = StateNotDefined("admin", FacOf(fr).name)

(* C18: define() on a key that has a definition replaces it by a new        *)
(* definition with the new generator and empty states, hooks and            *)
(* associations; every factory created afterwards is on the new definition, *)
(* uses the new generator, and its make() sees the states, hooks and        *)
(* associations of the new definition only.                                 *)
RedefineReplaces ==
    /\ [][DefineReplaces /\ FactoryUsesLatest]_vars
    /\ []MakeSeesOwnDefinition

(* A post returned by a factory created after Post was defined again with  *)
(* another generator: the replaced definition has a state, hooks and an    *)
(* association, the new one has none, and the make() has run the new       *)
(* generator and no hook and no association.                                *)
RedefineReplacesWitness ==
    \E tn \in MakeFrames :
        LET fr == FrameAt(tn)
            d == FacOf(fr).definition
        IN  /\ fr.slot # 0
            /\ Returned(fr)
            /\ d = entityFactories["Post"]
            /\ \E k \in ReplacedBy(d) :
                  /\ "admin" \in DOMAIN defs[k].states
                  /\ defs[k].beforeMakeHooks # <<>>
                  /\ defs[k].afterMakeHooks # <<>>
                  /\ defs[k].associations # <<>>
                  /\ defs[k].factory = "g1"
            /\ defs[d] = NewDefinition(Post, "g2")
            /\ fr.ent.gen = "g2"
            /\ fr.ent.author = CallerObj
            /\ fr.log = <<Event("seq", "Post"), Event("gen", "g2"),
                          Event("resolve", ""), Event("override", "")>>

(* The state the replaced definition registered is not defined for a       *)
(* factory created after the re-registration.                              *)
RedefineDropsStateWitness ==
    \E tn \in MakeFrames :
        LET fr == FrameAt(tn)
            d == FacOf(fr).definition
        IN  /\ fr.slot # 0
            /\ fr.pc = "rejected"
            /\ \E k \in ReplacedBy(d) : "admin" \in DOMAIN defs[k].states

-----------------------------------------------------------------------------
(* SpecNested: nested-value resolution.  The generator of Post leaves in   *)
(* the field author nothing (g1), an awaitable (g2), factory(User) (gSub), *)
(* an awaitable of it (gPSub), a Date (gDate), an awaitable of a Date      *)
(* (gPDate), or is an async function whose entity holds an awaitable       *)
(* (gAsync).  Post and User have a before-hook or none.                    *)

NestedGens == {"g1", "g2", "gSub", "gPSub", "gDate", "gPDate", "gAsync"}

NvDefine == \/ DefineFirst(User, "g1")
            \/ \E g \in NestedGens : ~Undefined(User) /\ DefineFirst(Post, g)
NvBefore == \E d \in 1..Len(defs) :
                /\ Defining
                /\ defs[d].beforeMakeHooks = <<>>
                /\ BuilderBeforeMake(d, "h2")
NvFactory == \E s \in Slots : Idle /\ Factory(Post, s)
NvMake == \E s \in Slots : Idle /\ StartMake(s, NoOverrides)

NextNested ==
    \/ NvDefine
    \/ NvBefore
    \/ NvFactory
    \/ NvMake
    \/ \E t \in 1..Len(tasks) : ResolveStep(t)
    \/ \E t \in 1..Len(tasks) : NestedReturn(t)
    \/ \E t \in 1..Len(tasks) : BeforeHookStep(t)
    \/ \E t \in 1..Len(tasks) : OverrideStep(t)
    \/ \E t \in 1..Len(tasks) : UserDone(t)
    \/ \E t \in 1..Len(tasks) : Settle(t)

SpecNested == Init /\ [][NextNested]_vars

(* The make() frames of the client's factory of Post. *)
ClientFrames == {tn \in MakeFrames : FrameAt(tn).slot # 0}

(* Nested-value resolution has finished in the frame. *)
PastResolution(fr) ==
    \E n \in 1..Len(fr.log) : fr.log[n] = Event("resolve", "")

(* The value of an attribute once awaited, if it is awaitable. *)
Settled(v) == IF isPromiseLike(v) THEN v.items[1] ELSE v

(* The field author after nested-value resolution as step 4 of the          *)
(* pipeline prescribes it for the entity raw the generator produced: an    *)
(* awaitable is replaced by its value, and a value that is a sub-factory,  *)
(* awaited or not, by the entity its make() without arguments produces.    *)
ResolvedAsPrescribed(fr) ==
    LET raw == Generated(FacOf(fr), fr.seq).ent.author
        v == Settled(raw)
        now == fr.ent.author
    IN  /\ ~isPromiseLike(now)
        /\ ~IsSubFactory(now)
        /\ IF IsSubFactory(v)
           THEN /\ now.kind = "one"
                /\ now.items[1].type = v.items[1].name
                /\ now.items[1].gen = v.items[1].factoryFunction
                /\ now.items[1].cfg = ""
                /\ now.items[1].trail = <<>>
           ELSE now = v

(* No before-hook is called before nested-value resolution has finished. *)
HooksAfterResolution(fr) ==
    \A n \in 1..Len(fr.log) :
        (fr.log[n].d = 0 /\ fr.log[n].step = "before") =>
            \E k \in 1..(n - 1) : fr.log[k] = Event("resolve", "")

(* C19: nested-value resolution replaces every attribute of the            *)
(* generator's output that is awaitable by its resolved value and every    *)
(* attribute whose (possibly just resolved) value is a non-Date object     *)
(* with a callable make by the result of make(), before any before-hook    *)
(* runs: in every make() of the client that is past resolution the field   *)
(* author is resolved as prescribed, and no before-hook was called before. *)
NestedValuesResolved ==
    \A tn \in ClientFrames :
        LET fr == FrameAt(tn)
        IN  /\ HooksAfterResolution(fr)
            /\ PastResolution(fr) => ResolvedAsPrescribed(fr)

(* The same for the generators that return their entity synchronously. *)
SyncNestedValuesResolved ==
    \A tn \in ClientFrames :
        LET fr == FrameAt(tn)
        IN  ~IsAsync(FacOf(fr).factoryFunction) =>
              /\ HooksAfterResolution(fr)
              /\ PastResolution(fr) => ResolvedAsPrescribed(fr)

(* A make() whose async generator left an awaitable in author returns, its *)
(* before-hook called, with the awaitable still in the field.              *)
AsyncEntityUnresolvedWitness ==
    \E tn \in ClientFrames :
        LET fr == FrameAt(tn)
        IN  /\ Returned(fr)
            /\ IsAsync(fr.ent.gen)
            /\ DefOf(fr).beforeMakeHooks # <<>>
            /\ fr.ent.role = "hooked"
            /\ fr.ent.author = Promise(CallerObj)

(* Posts returned with the awaited value, and with the user that the       *)
(* awaited sub-factory has made, in author.                                 *)
SyncNestedValuesResolvedWitness ==
    /\ \E tn \in ClientFrames :
          LET fr == FrameAt(tn)
          IN  /\ Returned(fr)
              /\ fr.ent.gen = "gPSub"
              /\ fr.ent.role = "hooked"
              /\ fr.ent.author.kind = "one"
              /\ fr.ent.author.items[1].type = "User"
              /\ fr.ent.author.items[1].id = 1

(* C20: an attribute of the generator's output that holds a Date is never  *)
(* awaited and make() is never invoked on it: a make() whose generator put *)
(* a Date in author (or an awaitable of one, once awaited) calls no        *)
(* sub-factory, and from the generator on, through the hooks and in the    *)
(* entity returned, author holds that Date.                                 *)
DateUntouched ==
    \A tn \in ClientFrames :
        LET fr == FrameAt(tn)
            raw == Generated(FacOf(fr), fr.seq).ent.author
        IN  IsDate(Settled(raw)) =>
              /\ IsTop(tn)
              /\ \A n \in 1..Len(fr.log) :
                    fr.log[n].d = 0 /\ fr.log[n].step # "nested"
              /\ IsDate(raw) => fr.ent.author = raw
              /\ PastResolution(fr) => fr.ent.author = Settled(raw)
              /\ fr.pc # "rejected"

(* A post returned, its before-hook called, with the Date of its generator *)
(* in author.                                                               *)
DateUntouchedWitness ==
    \E tn \in ClientFrames :
        LET fr == FrameAt(tn)
        IN  /\ Returned(fr)
            /\ fr.ent.gen = "gDate"
            /\ fr.ent.role = "hooked"
            /\ fr.ent.author = DateVal
            /\ fr.log = Prescribed(fr)

-----------------------------------------------------------------------------
(* SpecNestedFail: a failing sub-factory attribute.  The generator of Post *)
(* leaves in author factory(User) (gSub), an awaitable of it (gPSub) or an *)
(* object without a name whose make throws (gBroken); the generator of     *)
(* User fails (gFail) or its before-hook does (hFail), or neither.  Post   *)
(* has a before-hook, an association, a state and an after-hook.           *)

NfDefine == \/ \E g \in {"g1", "gFail"} : DefineFirst(User, g)
            \/ \E g \in {"gSub", "gPSub", "gBroken"} :
                  ~Undefined(User) /\ DefineFirst(Post, g)
NfUserHook == \E d \in DefsOf(User) :
                  /\ Defining
                  /\ defs[d].beforeMakeHooks = <<>>
                  /\ BuilderBeforeMake(d, "hFail")
(* On Post the builder calls are chained: beforeMake, association, state,  *)
(* afterMake.                                                              *)
NfBefore == \E d \in DefsOf(Post) :
                /\ Defining
                /\ defs[d] = NewDefinition(Post, defs[d].factory)
                /\ BuilderBeforeMake(d, "h2")
NfAssoc == \E d \in DefsOf(Post) :
               /\ Defining
               /\ defs[d].beforeMakeHooks # <<>>
               /\ defs[d].associations = <<>>
               /\ defs[d].states = <<>>
               /\ BuilderAssociation(d, "editor", User, <<>>)
NfState == \E d \in DefsOf(Post) :
               /\ Defining
               /\ defs[d].associations # <<>>
               /\ defs[d].afterMakeHooks = <<>>
               /\ BuilderState(d, "admin", "mkAdmin")
NfAfter == \E d \in DefsOf(Post) :
               /\ Defining
               /\ "admin" \in DOMAIN defs[d].states
               /\ defs[d].afterMakeHooks = <<>>
               /\ BuilderAfterMake(d, "h2")
NfFactory == \E s \in Slots : Defining /\ Factory(Post, s)
NfEFState == \E s \in Slots :
                 /\ Idle
                 /\ facs[s] # NoFac
                 /\ facs[s].activeStates = <<>>
                 /\ "admin" \in DOMAIN defs[facs[s].definition].states
                 /\ EFState(s, "admin")
NfMake == \E s \in Slots : Idle /\ StartMake(s, NoOverrides)

NextNestedFail ==
    \/ NfDefine
    \/ NfUserHook
    \/ NfBefore
    \/ NfAssoc
    \/ NfState
    \/ NfAfter
    \/ NfFactory
    \/ NfEFState
    \/ NfMake
    \/ \E t \in 1..Len(tasks) : ResolveStep(t)
    \/ \E t \in 1..Len(tasks) : NestedReturn(t)
    \/ \E t \in 1..Len(tasks) : NestedCatch(t)
    \/ \E t \in 1..Len(tasks) : BeforeHookStep(t)
    \/ \E t \in 1..Len(tasks) : AssociationStep(t)
    \/ \E t \in 1..Len(tasks) : AssociationReturn(t)
    \/ \E t \in 1..Len(tasks) : StateStep(t)
    \/ \E t \in 1..Len(tasks) : OverrideStep(t)
    \/ \E t \in 1..Len(tasks) : AfterHookStep(t)
    \/ \E t \in 1..Len(tasks) : UserDone(t)
    \/ \E t \in 1..Len(tasks) : Settle(t)

SpecNestedFail == Init /\ [][NextNestedFail]_vars

(* The name property of the value make() is invoked on: the key of an      *)
(* EntityFactory, undefined for an object that has none.                   *)
NameOfSubFactory(v) ==
    IF v.kind = "factory" THEN v.items[1].name ELSE "undefined"

(* C21: when the make() invoked on a sub-factory attribute fails during    *)
(* nested-value resolution, the outer make() rejects with 'Could not make  *)
(* <name>', <name> the name property of the sub-factory ('undefined' when  *)
(* it has none), and runs no hook, association or state afterwards: a      *)
(* make() of the client has seen a failure iff it is rejected, and then    *)
(* its error is that message, the failure is the last thing logged, its    *)
(* own steps are the draw, the generator and the nested make() only, and   *)
(* nothing is pending or running for it.                                    *)
NestedFailureNamed ==
    \A tn \in ClientFrames :
        LET fr == FrameAt(tn)
            v == Settled(Generated(FacOf(fr), fr.seq).ent.author)
            k == FailedAt(fr.log)
        IN  /\ (k # 0) <=> (fr.pc = "rejected")
            /\ k # 0 =>
                 /\ fr.err = CouldNotMake(NameOfSubFactory(v))
                 /\ k = Len(fr.log)
                 /\ \A n \in 1..Len(fr.log) :
                       fr.log[n].d = 0 =>
                          fr.log[n].step \in {"seq", "gen", "nested", "failed"}
                 /\ fr.pending = <<>>
                 /\ IsTop(tn)
                 /\ Outcome(fr).status = "rejected"
                 /\ Outcome(fr).error = fr.err

(* The hook of User fails inside the make() of the awaited sub-factory of  *)
(* a post that has a before-hook, an association, an activated state and   *)
(* an after-hook: the client gets 'Could not make User'.                   *)
NestedFailureNamedWitness ==
    \E tn \in ClientFrames :
        LET fr == FrameAt(tn)
            k == FailedAt(fr.log)
        IN  /\ fr.pc = "rejected"
            /\ fr.err = CouldNotMake("User")
            /\ fr.ent.gen = "gPSub"
            /\ fr.log[k] = [d |-> 1, step |-> "failed", name |-> "hFail"]
            /\ DefOf(fr).beforeMakeHooks # <<>>
            /\ DefOf(fr).associations # <<>>
            /\ DefOf(fr).afterMakeHooks # <<>>
            /\ FacOf(fr).activeStates = <<"admin">>

(* The make of an object without a name throws: 'Could not make undefined'. *)
NestedFailureUnnamedWitness ==
    \E tn \in ClientFrames :
        LET fr == FrameAt(tn)
        IN  /\ fr.pc = "rejected"
            /\ fr.err = CouldNotMake("undefined")
            /\ DefOf(fr).afterMakeHooks # <<>>

-----------------------------------------------------------------------------
(* SpecMap: the map function.  User registers the state admin; the client  *)
(* records map functions on its factory, any number of times and between   *)
(* productions, and calls make() and makeMany(2), with or without an       *)
(* override of role.                                                       *)

MpDefine == DefineFirst(User, "g1")
MpState == \E d \in DefsOf(User) :
               /\ Defining
               /\ defs[d].states = <<>>
               /\ BuilderState(d, "admin", "mkAdmin")
MpFactory == \E s \in Slots : Defining /\ Factory(User, s)
MpEFState == \E s \in Slots :
                 /\ Idle
                 /\ facs[s] # NoFac
                 /\ facs[s].activeStates = <<>>
                 /\ "admin" \in DOMAIN defs[facs[s].definition].states
                 /\ EFState(s, "admin")
MpMap == \E s \in Slots, m \in {"m1", "m2", "mNew"} : Idle /\ EFMap(s, m)
MpOverrides == {NoOverrides, [f \in {"role"} |-> "override"]}
MpMake == \E s \in Slots, o \in MpOverrides : Idle /\ StartMake(s, o)
MpMakeMany == \E s \in Slots, o \in MpOverrides :
                  Idle /\ StartMakeMany(s, 2, o)

NextMap ==
    \/ MpDefine
    \/ MpState
    \/ MpFactory
    \/ MpEFState
    \/ MpMap
    \/ MpMake
    \/ MpMakeMany
    \/ \E t \in 1..Len(tasks) : ResolveStep(t)
    \/ \E t \in 1..Len(tasks) : StateStep(t)
    \/ \E t \in 1..Len(tasks) : MapStep(t)
    \/ \E t \in 1..Len(tasks) : OverrideStep(t)
    \/ \E t \in 1..Len(tasks) : UserDone(t)
    \/ \E t \in 1..Len(tasks) : MakeManyNext(t)
    \/ \E t \in 1..Len(tasks) : Settle(t)

SpecMap == Init /\ [][NextMap]_vars

(* A step of map(): the client is idle and stays so, and the call is the   *)
(* last one it made.  The function recorded is then the argument, whatever *)
(* was recorded before.                                                    *)
MapRecordsLast ==
    (called'.op = "map" /\ Idle /\ tasks' = <<>>) =>
        \A s \in Slots :
            facs[s] # NoFac =>
               facs'[s] = [facs[s] EXCEPT !.mapFunction = called'.arg[1]]

(* The calls of the map function a make() has made itself. *)
MapCalls(fr) == SelectSeq(Own(fr.log), LAMBDA ev : ev.step = "map")

(* A make() calls the function its factory has recorded, at most once,     *)
(* at the place the prescribed order gives it (after the states, before    *)
(* the overrides); when it returns it has called it exactly once if one is *)
(* recorded, and the entity is what the function returned for the entity   *)
(* the states left, with the overrides assigned.                           *)
MapAppliedOnce ==
    \A tn \in MakeFrames :
        LET fr == FrameAt(tn)
            m == FacOf(fr).mapFunction
        IN  /\ Len(MapCalls(fr)) <= 1
            /\ \A n \in 1..Len(MapCalls(fr)) : MapCalls(fr)[n].name = m
            /\ IsPrefix(fr.log, Prescribed(fr))
            /\ Returned(fr) =>
                 /\ fr.log = Prescribed(fr)
                 /\ Len(MapCalls(fr)) = IF m = "" THEN 0 ELSE 1
                 /\ fr.ent = ApplyOverrides(BeforeOverrides(fr), fr.ov)

(* C22: of several map() calls on one EntityFactory only the last recorded *)
(* function is used; it is applied exactly once per produced entity, after *)
(* all activated states and before the overrides, and the entity is        *)
(* replaced by its return value.                                           *)
MapLastOnce ==
    /\ [][MapRecordsLast]_vars
    /\ []MapAppliedOnce

(* The second entity of a makeMany(2) returns from a factory with the      *)
(* state admin activated and the function mNew recorded: the entity is the *)
(* new object mNew returned, with the override of role assigned.           *)
MapLastOnceWitness ==
    \E tn \in MakeFrames :
        LET fr == FrameAt(tn)
        IN  /\ tn[2] = 2
            /\ Len(tasks[tn[1]][1].list) = 1
            /\ Returned(fr)
            /\ FacOf(fr).mapFunction = "mNew"
            /\ FacOf(fr).activeStates = <<"admin">>
            /\ BeforeOverrides(fr).role = "replaced"
            /\ fr.ent.gen = ""
            /\ fr.ent.trail = <<>>
            /\ fr.ent.role = "override"

(* An entity made after m2 was recorded holds what m2 wrote over the role  *)
(* the state admin had set.                                                *)
MapAfterStatesWitness ==
    \E tn \in MakeFrames :
        LET fr == FrameAt(tn)
        IN  /\ Returned(fr)
            /\ fr.ent.trail = <<"mkAdmin">>
            /\ fr.ent.role = "mapped2"
            /\ called = Called("makeMany", <<>>, NoError)

-----------------------------------------------------------------------------
(* SpecEach: makeMany on a configured factory.  User has before-hooks, an  *)
(* after-hook and the state admin; the client activates the state, records *)
(* the map function m1 and calls makeMany with an amount 0..MaxAmount.     *)

EaDefine == DefineFirst(User, "g1")
(* The builder calls are chained: beforeMake (h2, then h1), afterMake,     *)
(* state.                                                                  *)
EaBefore == \E d \in DefsOf(User) :
                /\ Defining
                /\ defs[d].afterMakeHooks = <<>>
                /\ defs[d].states = <<>>
                /\ BuilderBeforeMake(d, IF defs[d].beforeMakeHooks = <<>>
                                        THEN "h2" ELSE "h1")
EaAfter == \E d \in DefsOf(User) :
               /\ Defining
               /\ defs[d].afterMakeHooks = <<>>
               /\ defs[d].states = <<>>
               /\ BuilderAfterMake(d, "h1")
EaState == \E d \in DefsOf(User) :
               /\ Defining
               /\ defs[d].states = <<>>
               /\ BuilderState(d, "admin", "mkAdmin")
EaFactory == \E s \in Slots : Defining /\ Factory(User, s)
EaEFState == \E s \in Slots :
                 /\ Idle
                 /\ MapGet(sequences, User.name, 0) = 0
                 /\ facs[s] # NoFac
                 /\ facs[s].activeStates = <<>>
                 /\ "admin" \in DOMAIN defs[facs[s].definition].states
                 /\ EFState(s, "admin")
EaMap == \E s \in Slots :
             /\ Idle
             /\ MapGet(sequences, User.name, 0) = 0
             /\ facs[s] # NoFac
             /\ facs[s].mapFunction = ""
             /\ EFMap(s, "m1")
EaMakeMany == \E s \in Slots, n \in 0..MaxAmount :
                  Idle /\ StartMakeMany(s, n, NoOverrides)

NextEach ==
    \/ EaDefine
    \/ EaBefore
    \/ EaAfter
    \/ EaState
    \/ EaFactory
    \/ EaEFState
    \/ EaMap
    \/ EaMakeMany
    \/ \E t \in 1..Len(tasks) : ResolveStep(t)
    \/ \E t \in 1..Len(tasks) : BeforeHookStep(t)
    \/ \E t \in 1..Len(tasks) : StateStep(t)
    \/ \E t \in 1..Len(tasks) : MapStep(t)
    \/ \E t \in 1..Len(tasks) : OverrideStep(t)
    \/ \E t \in 1..Len(tasks) : AfterHookStep(t)
    \/ \E t \in 1..Len(tasks) : UserDone(t)
    \/ \E t \in 1..Len(tasks) : MakeManyNext(t)
    \/ \E t \in 1..Len(tasks) : Settle(t)

SpecEach == Init /\ [][NextEach]_vars

(* The calls of a kind of user-supplied function logged below a call. *)
CallsOf(log, kind) == SelectSeq(log, LAMBDA ev : ev.step = kind)

(* The entity one run of the whole pipeline returns for sequence number k  *)
(* on the factory and the definition of the frame.                         *)
PipelineResult(fr, k) ==
    ApplyCalls("after", DefOf(fr).afterMakeHooks,
               ApplyOverrides(BeforeOverrides([fr EXCEPT !.seq = k]), fr.ov))

(* C23: makeMany(n) runs the full pipeline once per entity: when j         *)
(* entities are in the list, the log of makeMany is j times the log        *)
(* prescribed for one make() of the factory, with its activation list and  *)
(* its map function; so every before-hook and every after-hook was called  *)
(* j times, every activated state and the map function j times; and        *)
(* entity k of the list is what one run of the pipeline returns for its    *)
(* sequence number.  When makeMany returns, j = n.                          *)
MakeManyFullPipeline ==
    \A t \in 1..Len(tasks) :
        LET root == tasks[t][1]
            def == DefOf(root)
            fac == FacOf(root)
            j == Len(root.list)
            one == Prescribed(root)
        IN  root.op = "makeMany" =>
              /\ Returned(root) => j = root.amount
              /\ root.log = Nest(Concat([k \in 1..j |-> one]))
              /\ Len(CallsOf(root.log, "before")) = j * Len(def.beforeMakeHooks)
              /\ Len(CallsOf(root.log, "after")) = j * Len(def.afterMakeHooks)
              /\ Len(CallsOf(root.log, "state")) = j * Len(fac.activeStates)
              /\ Len(CallsOf(root.log, "map"))
                    = j * (IF fac.mapFunction = "" THEN 0 ELSE 1)
              /\ \A k \in 1..j :
                    root.list[k] = PipelineResult(root, root.list[1].id + k - 1)

(* makeMany(3) returns from a factory with two before-hooks, an after-     *)
(* hook, the state admin activated and a map function: 6 before-hook       *)
(* calls, 3 of each other, and three mapped admins.                        *)
MakeManyFullPipelineWitness ==
    \E t \in 1..Len(tasks) :
        LET root == tasks[t][1]
        IN  /\ root.op = "makeMany"
            /\ Returned(root)
            /\ Len(root.list) = 3
            /\ Len(CallsOf(root.log, "before")) = 6
            /\ Len(CallsOf(root.log, "after")) = 3
            /\ Len(CallsOf(root.log, "state")) = 3
            /\ Len(CallsOf(root.log, "map")) = 3
            /\ \A k \in 1..3 : /\ root.list[k].trail = <<"mkAdmin">>
                               /\ root.list[k].role = "mapped"
                               /\ root.list[k].id = k - 1

(* define() touches no EntityFactory and leaves the counter of a tracked   *)
(* key as it is.                                                           *)
DefineKeepsFactories ==
    DefineStep =>
        LET name == defs'[Len(defs')].entity
        IN  /\ facs' = facs
            /\ name \in DOMAIN sequences => sequences'[name] = sequences[name]

(* The start of a make() by the client: the generator the factory holds is *)
(* called with the number the counter of the key holds, and the counter    *)
(* advances by one, whichever definition the factory was created on.       *)
MakeDrawsFromKey ==
    Len(tasks') = Len(tasks) + 1 =>
        LET fr == tasks'[Len(tasks')][1]
            name == facs[fr.slot].name
        IN  /\ fr.seq = sequences[name]
            /\ sequences' = [sequences EXCEPT ![name] = @ + 1]
            /\ fr.ent.gen = facs[fr.slot].factoryFunction

(* The make() frames of a factory created before its key was registered    *)
(* again.                                                                   *)
StaleFrames ==
    {tn \in ClientFrames :
        FacOf(FrameAt(tn)).definition
            # entityFactories[FacOf(FrameAt(tn)).name]}

(* A make() of a factory created before the re-registration runs the       *)
(* generator and the pipeline of the definition it was created on.         *)
StaleMakesOld ==
    \A tn \in StaleFrames :
        LET fr == FrameAt(tn)
            d == FacOf(fr).definition
        IN  /\ d \in ReplacedBy(entityFactories[FacOf(fr).name])
            /\ FacOf(fr).factoryFunction = defs[d].factory
            /\ fr.ent.gen = defs[d].factory
            /\ fr.pc # "rejected" => IsPrefix(fr.log, Prescribed(fr))
            /\ Returned(fr) => fr.log = Prescribed(fr)

(* C24: an EntityFactory created before its key is registered again keeps  *)
(* the generator and the definition that were current when it was created: *)
(* define() changes no factory, a later make() of the factory calls the    *)
(* old generator and runs the old definition, and it draws its number from *)
(* the counter of the key, which define() has left as it was.              *)
StaleFactoryKeepsGenerator ==
    /\ [][DefineKeepsFactories /\ MakeDrawsFromKey]_vars
    /\ []StaleMakesOld

(* A factory made its first post, Post was registered again with another   *)
(* generator, and the factory's second post returns: made by the old       *)
(* generator g1, with the number 1.                                         *)
StaleFactoryKeepsGeneratorWitness ==
    \E tn \in StaleFrames :
        LET fr == FrameAt(tn)
        IN  /\ Returned(fr)
            /\ defs[entityFactories["Post"]].factory = "g2"
            /\ fr.ent.gen = "g1"
            /\ fr.ent.author = Unset
            /\ fr.seq = 1
            /\ sequences["Post"] = 2

(* A step of a builder method. *)
BuilderStep == Len(defs') = Len(defs) /\ defs' # defs

(* A builder method changes one definition object where it is: no          *)
(* definition is added, the registry maps the keys to the same objects,    *)
(* and the factories hold the same references.                             *)
BuilderMutates ==
    BuilderStep =>
        /\ called'.op \in {"builder.state", "builder.beforeMake",
                           "builder.afterMake", "builder.association"}
        /\ \E d \in 1..Len(defs) :
              \A k \in 1..Len(defs) : k # d => defs'[k] = defs[k]
        /\ entityFactories' = entityFactories
        /\ facs' = facs

(* What the last builder call attached is in the definition the builder    *)
(* was returned for.                                                       *)
BuilderAttached ==
    LET d == called.arg[1]
    IN  /\ called.op = "builder.state" =>
              called.arg[2] \in DOMAIN defs[d].states
        /\ called.op = "builder.beforeMake" =>
              /\ defs[d].beforeMakeHooks # <<>>
              /\ defs[d].beforeMakeHooks[Len(defs[d].beforeMakeHooks)]
                     = called.arg[2]
        /\ called.op = "builder.afterMake" =>
              /\ defs[d].afterMakeHooks # <<>>
              /\ defs[d].afterMakeHooks[Len(defs[d].afterMakeHooks)]
                     = called.arg[2]
        /\ called.op = "builder.association" =>
              defs[d].associations # <<>>

(* The make() frames of a factory whose key was not registered again      *)
(* since the factory was created.                                          *)
CurrentFrames == ClientFrames \ StaleFrames

(* A make() of a factory on the registered definition runs every hook,     *)
(* association and activated state the definition holds.                   *)
AttachedVisible ==
    \A tn \in CurrentFrames :
        LET fr == FrameAt(tn)
            def == defs[FacOf(fr).definition]
            own == {Own(fr.log)[n] : n \in 1..Len(Own(fr.log))}
        IN  Returned(fr) =>
              /\ \A n \in 1..Len(def.beforeMakeHooks) :
                    Event("before", def.beforeMakeHooks[n]) \in own
              /\ \A n \in 1..Len(def.afterMakeHooks) :
                    Event("after", def.afterMakeHooks[n]) \in own
              /\ \A n \in 1..Len(def.associations) :
                    /\ Event("assoc", def.associations[n].fieldName) \in own
                    /\ fr.ent[def.associations[n].fieldName] # Unset
              /\ \A n \in 1..Len(FacOf(fr).activeStates) :
                    /\ FacOf(fr).activeStates[n] \in DOMAIN def.states
                    /\ Event("state", FacOf(fr).activeStates[n]) \in own

(* C25: a state, hook or association attached through the builder that     *)
(* define() returned is in the registered definition itself, not in a      *)
(* copy, so that every factory on that definition, as long as the key is   *)
(* not registered again, runs it in its make().                            *)
BuilderInPlace ==
    /\ [][BuilderMutates]_vars
    /\ [](BuilderAttached /\ AttachedVisible)

(* A post returned by a factory on the registered definition of Post, to   *)
(* which the builder attached a state, two hooks and an association: the   *)
(* make() ran the hooks and produced the author.                           *)
BuilderInPlaceWitness ==
    \E tn \in CurrentFrames :
        LET fr == FrameAt(tn)
            def == defs[FacOf(fr).definition]
        IN  /\ Returned(fr)
            /\ "admin" \in DOMAIN def.states
            /\ def.beforeMakeHooks = <<"h2">>
            /\ def.afterMakeHooks = <<"h2">>
            /\ Len(def.associations) = 1
            /\ fr.ent.author # Unset
            /\ FacOf(fr).activeStates = <<"admin">>
            /\ fr.ent.role = "hooked"

-----------------------------------------------------------------------------
(* Builder handles of replaced definitions: Post is registered again and   *)
(* the client goes on calling the builder it got from an earlier define(), *)
(* also while a make() of a factory on the registered definition is        *)
(* awaiting.                                                               *)

(* The definitions of Post that a later define() has replaced. *)
Superseded ==
    IF Undefined(Post) THEN {} ELSE ReplacedBy(entityFactories["Post"])

SsDefine == \/ DefineFirst(User, "g1")
            \/ \E g \in {"g1", "g2"} :
                  Idle /\ ~Undefined(User) /\ Define(Post, g)
SsCurrent == /\ Idle
             /\ ~Undefined(Post)
             /\ defs[entityFactories["Post"]].beforeMakeHooks = <<>>
             /\ BuilderBeforeMake(entityFactories["Post"], "h1")
SsState == \E d \in Superseded :
               /\ StaleFrames = {}
               /\ defs[d].states = NewDefinition(Post, "g1").states
               /\ defs[d].beforeMakeHooks = <<>>
               /\ BuilderState(d, "admin", "mkAdmin")
SsBefore == \E d \in Superseded :
                /\ StaleFrames = {}
                /\ "admin" \in DOMAIN defs[d].states
                /\ defs[d].beforeMakeHooks = <<>>
                /\ BuilderBeforeMake(d, "h2")
SsAfter == \E d \in Superseded :
               /\ StaleFrames = {}
               /\ defs[d].beforeMakeHooks # <<>>
               /\ defs[d].afterMakeHooks = <<>>
               /\ BuilderAfterMake(d, "h2")
SsAssoc == \E d \in Superseded :
               /\ StaleFrames = {}
               /\ defs[d].afterMakeHooks # <<>>
               /\ defs[d].associations = <<>>
               /\ BuilderAssociation(d, "editor", User, <<>>)
SsFactory == \E s \in Slots : Idle /\ Factory(Post, s)
SsEFState == \E s \in Slots :
                 /\ Idle
                 /\ facs[s] # NoFac
                 /\ facs[s].activeStates = <<>>
                 /\ EFState(s, "admin")
SsMake == \E s \in Slots : Idle /\ StartMake(s, NoOverrides)

NextStale ==
    \/ SsDefine
    \/ SsCurrent
    \/ SsState
    \/ SsBefore
    \/ SsAfter
    \/ SsAssoc
    \/ SsFactory
    \/ SsEFState
    \/ SsMake
    \/ \E t \in 1..Len(tasks) : ResolveStep(t)
    \/ \E t \in 1..Len(tasks) : BeforeHookStep(t)
    \/ \E t \in 1..Len(tasks) : AssociationStep(t)
    \/ \E t \in 1..Len(tasks) : AssociationReturn(t)
    \/ \E t \in 1..Len(tasks) : StateStep(t)
    \/ \E t \in 1..Len(tasks) : OverrideStep(t)
    \/ \E t \in 1..Len(tasks) : AfterHookStep(t)
    \/ \E t \in 1..Len(tasks) : UserDone(t)
    \/ \E t \in 1..Len(tasks) : Settle(t)

SpecStale == Init /\ [][NextStale]_vars

(* A builder call on a replaced definition changes neither the registered  *)
(* definition of the key, nor what factory() returns for it, nor a factory *)
(* or a make() in flight.                                                  *)
SupersededBuilderInert ==
    (BuilderStep /\ called'.arg[1] \in Superseded) =>
        LET cur == entityFactories["Post"]
        IN  /\ defs'[cur] = defs[cur]
            /\ \A k \in 1..Len(defs) :
                  k # called'.arg[1] => defs'[k] = defs[k]
            /\ entityFactories' = entityFactories
            /\ factory(entityFactories', defs', Post)
                   = factory(entityFactories, defs, Post)
            /\ facs' = facs
            /\ tasks' = tasks

(* The hook, association and state calls in the log of a make() are those  *)
(* of the definition of its factory, and so are the marks they leave in    *)
(* the entity.                                                             *)
OnlyAttached ==
    \A tn \in CurrentFrames :
        LET fr == FrameAt(tn)
            def == defs[FacOf(fr).definition]
            own == Own(fr.log)
            hooks(hs) == {hs[n] : n \in 1..Len(hs)}
        IN  /\ \A n \in 1..Len(own) :
                  /\ own[n].step = "before" =>
                        own[n].name \in hooks(def.beforeMakeHooks)
                  /\ own[n].step = "after" =>
                        own[n].name \in hooks(def.afterMakeHooks)
                  /\ own[n].step = "assoc" =>
                        \E a \in 1..Len(def.associations) :
                            def.associations[a].fieldName = own[n].name
                  /\ own[n].step = "state" =>
                        own[n].name \in DOMAIN def.states
            /\ def.associations = <<>> => fr.ent.editor = Unset
            /\ def.states = NewDefinition(Post, "g1").states =>
                  fr.ent.role # "admin"
            /\ "h2" \notin hooks(def.beforeMakeHooks)
                             \cup hooks(def.afterMakeHooks) =>
                  fr.ent.role # "hooked"
            /\ Returned(fr) => fr.log = Prescribed(fr)

(* C26: the builder of a definition that a later define() of the key       *)
(* replaced writes to the replaced definition alone: what it attaches      *)
(* after the re-registration is in no make() of a factory created after    *)
(* the re-registration.                                                    *)
SupersededBuilderIgnored ==
    /\ [][SupersededBuilderInert]_vars
    /\ []OnlyAttached

(* A post returned by a factory on the registered definition of Post,      *)
(* while the make() was awaiting the builder of the replaced definition    *)
(* attached an after-hook: the replaced definition has a state and hooks,  *)
(* the post has none of their marks.                                       *)
SupersededBuilderIgnoredWitness ==
    \E tn \in CurrentFrames :
        LET fr == FrameAt(tn)
        IN  /\ Returned(fr)
            /\ called.op = "builder.afterMake"
            /\ called.arg[1] \in Superseded
            /\ defs[called.arg[1]].afterMakeHooks = <<"h2">>
            /\ "admin" \in DOMAIN defs[called.arg[1]].states
            /\ fr.ent.role = "generated"
            /\ fr.log = <<Event("seq", "Post"),
                          Event("gen", FacOf(fr).factoryFunction),
                          Event("resolve", ""), Event("override", "")>>

-----------------------------------------------------------------------------
(* Registration and the sequence store: keys are registered, registered    *)
(* again after productions, and the store is cleared.                      *)

TkDefine == \E c \in Classes : Idle /\ Define(c, "g1")
TkFactory == \E c \in Classes, s \in Slots : Idle /\ Factory(c, s)
TkMake == \E s \in Slots : Idle /\ StartMake(s, NoOverrides)
TkReset == Idle /\ ResetSequences

NextTrack ==
    \/ TkDefine
    \/ TkFactory
    \/ TkMake
    \/ TkReset
    \/ \E t \in 1..Len(tasks) : ResolveStep(t)
    \/ \E t \in 1..Len(tasks) : OverrideStep(t)
    \/ \E t \in 1..Len(tasks) : Settle(t)

SpecTrack == Init /\ [][NextTrack]_vars

(* define() leaves its key tracked: with 0 when the store did not hold the *)
(* key, with the value it had otherwise; no other key is added, removed or *)
(* changed.                                                                 *)
DefineTracks ==
    DefineStep =>
        LET name == defs'[Len(defs')].entity
        IN  /\ DOMAIN sequences' = DOMAIN sequences \cup {name}
            /\ sequences'[name] =
                   IF name \in DOMAIN sequences THEN sequences[name] ELSE 0
            /\ \A k \in DOMAIN sequences \ {name} :
                   sequences'[k] = sequences[k]

(* Tracking a key twice is tracking it once. *)
TrackingIdempotent ==
    \A c \in Classes :
        LET once == EnsureTracked(sequences, c.name)
        IN  /\ EnsureTracked(once, c.name) = once
            /\ c.name \in DOMAIN sequences => once = sequences

(* C27: define() makes its key tracked in the sequence store, with counter *)
(* 0 when the key was not tracked, before anything is produced; on a       *)
(* tracked key it leaves the counter at its value, and it leaves the       *)
(* counter of every other key as it is.                                    *)
DefineTracksOnce ==
    /\ [][DefineTracks]_vars
    /\ []TrackingIdempotent

(* Post was registered again after two posts and a user were produced: the *)
(* counters are still 2 and 1.                                             *)
DefineTracksOnceWitness ==
    /\ called.op = "define"
    /\ Cardinality(DefsOf(Post)) = 2
    /\ entityFactories["Post"] = Len(defs)
    /\ sequences = [k \in {"Post", "User"} |->
                       IF k = "Post" THEN 2 ELSE 1]

-----------------------------------------------------------------------------
(* Attributes that are neither awaitable nor sub-factories: the generator  *)
(* of Post leaves a scalar, a plain object, an array or null in author.    *)

PlainGens == {"gScalar", "gPlain", "gList", "gNull"}

PlDefine == \E g \in PlainGens : DefineFirst(Post, g)
PlBefore == \E d \in 1..Len(defs), h \in {"h1", "h2"} :
                /\ Defining
                /\ BuilderBeforeMake(d, h)
PlFactory == \E s \in Slots : Idle /\ Factory(Post, s)
PlMake == \E s \in Slots : Idle /\ StartMake(s, NoOverrides)

NextPlain ==
    \/ PlDefine
    \/ PlBefore
    \/ PlFactory
    \/ PlMake
    \/ \E t \in 1..Len(tasks) : ResolveStep(t)
    \/ \E t \in 1..Len(tasks) : BeforeHookStep(t)
    \/ \E t \in 1..Len(tasks) : OverrideStep(t)
    \/ \E t \in 1..Len(tasks) : UserDone(t)
    \/ \E t \in 1..Len(tasks) : Settle(t)

SpecPlain == Init /\ [][NextPlain]_vars

(* The make() has not failed, and from the end of nested-value resolution  *)
(* on the field author holds what the generator assigned.                  *)
PlainUntouched(fr) ==
    LET raw == Generated(FacOf(fr), fr.seq).ent.author
    IN  /\ fr.pc # "rejected"
        /\ fr.ent.author = raw
        /\ Returned(fr) => PastResolution(fr)

(* C28: nested-value resolution leaves unchanged, and does not fail on, an *)
(* attribute that is neither awaitable nor a non-Date object with a        *)
(* callable make: a scalar, null, a plain object and an array without make *)
(* reach the returned entity as the generator assigned them.               *)
PlainValuesUntouched ==
    \A tn \in ClientFrames :
        LET fr == FrameAt(tn)
            raw == Generated(FacOf(fr), fr.seq).ent.author
        IN  (~isPromiseLike(raw) /\ raw.kind \notin {"factory", "broken"}) =>
                PlainUntouched(fr)

(* The same for the values other than null. *)
NonNullValuesUntouched ==
    \A tn \in ClientFrames :
        LET fr == FrameAt(tn)
        IN  FacOf(fr).factoryFunction \in PlainGens \ {"gNull"} =>
                PlainUntouched(fr)

(* A make() whose generator left null in author is rejected in nested-     *)
(* value resolution with a TypeError, before any hook is called.           *)
NullAttributeFailsWitness ==
    \E tn \in ClientFrames :
        LET fr == FrameAt(tn)
        IN  /\ fr.pc = "rejected"
            /\ fr.ent.gen = "gNull"
            /\ fr.ent.author = NullVal
            /\ fr.err = NullTypeError
            /\ DefOf(fr).beforeMakeHooks # <<>>
            /\ \A n \in 1..Len(fr.log) : fr.log[n].step # "before"

(* Posts returned with the scalar, the plain object and the array the      *)
(* generator assigned, after the before-hooks.                             *)
NonNullValuesUntouchedWitness ==
    \E tn \in ClientFrames :
        LET fr == FrameAt(tn)
        IN  /\ Returned(fr)
            /\ fr.ent.gen = "gList"
            /\ fr.ent.author = ListObj
            /\ fr.ent.role = "hooked"

-----------------------------------------------------------------------------
(* Overrides and after-hooks: User has a before-hook that writes role and  *)
(* up to MaxHooks after-hooks; make() is called with and without           *)
(* overrides.                                                              *)

AfBefore == \E d \in DefsOf(User) :
                /\ Defining
                /\ defs[d].beforeMakeHooks = <<>>
                /\ defs[d].afterMakeHooks = <<>>
                /\ BuilderBeforeMake(d, "h2")
AfAfter == \E d \in DefsOf(User), h \in HookFns :
               Defining /\ BuilderAfterMake(d, h)
AfFactory == \E s \in Slots : Idle /\ Factory(User, s)
AfMake == \E s \in Slots, ov \in Overrides : Idle /\ StartMake(s, ov)

NextAfter ==
    \/ DefineFirst(User, "g1")
    \/ AfBefore
    \/ AfAfter
    \/ AfFactory
    \/ AfMake
    \/ \E t \in 1..Len(tasks) : ResolveStep(t)
    \/ \E t \in 1..Len(tasks) : BeforeHookStep(t)
    \/ \E t \in 1..Len(tasks) : OverrideStep(t)
    \/ \E t \in 1..Len(tasks) : AfterHookStep(t)
    \/ \E t \in 1..Len(tasks) : UserDone(t)
    \/ \E t \in 1..Len(tasks) : Settle(t)

SpecAfter == Init /\ [][NextAfter]_vars

(* The make() frames of the client that have just called an after-hook and *)
(* await it: the entity of the frame is the one the hook has received.     *)
InAfterHook ==
    {tn \in ClientFrames :
        /\ FrameAt(tn).pending # <<>>
        /\ FrameAt(tn).pending[1].kind = "after"}

(* The after-hooks the make() has completed. *)
AftersDone(fr) ==
    LET afters == SelectSeq(Own(fr.log), LAMBDA ev : ev.step = "after")
    IN  [n \in 1..(Len(afters) - 1) |-> afters[n].name]

(* C29: an after-hook receives the entity with the override fields         *)
(* assigned: when an after-hook starts, every key of the overrides holds   *)
(* the override value, unless an after-hook of the same make() that ran    *)
(* before has written the field; the first after-hook receives the entity  *)
(* of the earlier steps with the overrides assigned over it.               *)
AfterHooksSeeOverrides ==
    \A tn \in InAfterHook :
        LET fr == FrameAt(tn)
            done == AftersDone(fr)
            overridden == ApplyOverrides(BeforeOverrides(fr), fr.ov)
        IN  /\ fr.ent = ApplyCalls("after", done, overridden)
            /\ done = <<>> => fr.ent = overridden
            /\ \A k \in DOMAIN fr.ov :
                  \/ fr.ent[k] = fr.ov[k]
                  \/ /\ \E n \in 1..Len(done) :
                            HookApply(done[n], overridden)[k] # overridden[k]
                     /\ fr.ent[k] # overridden[k]

(* The first after-hook of a make() with an override of role has been      *)
(* called: the before-hook had written role, and the entity the after-hook *)
(* got holds the override.                                                 *)
AfterHooksSeeOverridesWitness ==
    \E tn \in InAfterHook :
        LET fr == FrameAt(tn)
        IN  /\ AftersDone(fr) = <<>>
            /\ fr.ov = [f \in {"role"} |-> "override"]
            /\ BeforeOverrides(fr).role = "hooked"
            /\ fr.ent.role = "override"

(* The second after-hook has been called after the first wrote role: the   *)
(* entity it got holds what the first after-hook wrote, not the override.  *)
AfterHookChangedOverrideWitness ==
    \E tn \in InAfterHook :
        LET fr == FrameAt(tn)
        IN  /\ AftersDone(fr) = <<"h2">>
            /\ fr.ov = [f \in {"role"} |-> "override"]
            /\ fr.ent.role = "hooked"

(* The after-hooks of the definition that assign role. *)
WritesRole(hooks) ==
    \E n \in 1..Len(hooks) :
        HookApply(hooks[n], NullEnt).role # NullEnt.role

(* C36: the overrides are not the last write: the entity make() returns    *)
(* is the overridden entity with every after-hook applied in order, so a   *)
(* field that an after-hook assigns holds the value of the hook and not    *)
(* the override; a field no after-hook assigns holds the override.         *)
AfterHookWinsOverOverride ==
    \A tn \in ClientFrames :
        LET fr == FrameAt(tn)
            hooks == DefOf(fr).afterMakeHooks
            overridden == ApplyOverrides(BeforeOverrides(fr), fr.ov)
        IN  Returned(fr) =>
              /\ fr.ent = ApplyCalls("after", hooks, overridden)
              /\ "role" \in DOMAIN fr.ov =>
                    IF WritesRole(hooks)
                    THEN /\ fr.ent.role = "hooked"
                         /\ fr.ent.role # fr.ov.role
                    ELSE fr.ent.role = fr.ov.role

(* make({role: override}) has returned on a definition whose after-hook    *)
(* assigns role: the entity holds the value of the hook.                   *)
AfterHookWinsOverOverrideWitness ==
    \E tn \in ClientFrames :
        LET fr == FrameAt(tn)
        IN  /\ Returned(fr)
            /\ fr.ov = [f \in {"role"} |-> "override"]
            /\ DefOf(fr).beforeMakeHooks = <<>>
            /\ WritesRole(DefOf(fr).afterMakeHooks)
            /\ fr.ent.role = "hooked"

-----------------------------------------------------------------------------
(* The count option of an association: Post declares associations of the   *)
(* field author to User without count and with count 0, 1 and 2.           *)

CountOptions == {<<>>, <<0>>, <<1>>, <<2>>}

CtDefine == \/ DefineFirst(User, "g1")
            \/ ~Undefined(User) /\ DefineFirst(Post, "g1")
CtAssoc == \E d \in DefsOf(Post), n \in CountOptions :
               Defining /\ BuilderAssociation(d, "author", User, n)
CtFactory == \E s \in Slots : Idle /\ Factory(Post, s)
CtMake == \E s \in Slots : Idle /\ StartMake(s, NoOverrides)

NextCount ==
    \/ CtDefine
    \/ CtAssoc
    \/ CtFactory
    \/ CtMake
    \/ \E t \in 1..Len(tasks) : ResolveStep(t)
    \/ \E t \in 1..Len(tasks) : AssociationStep(t)
    \/ \E t \in 1..Len(tasks) : AssociationReturn(t)
    \/ \E t \in 1..Len(tasks) : OverrideStep(t)
    \/ \E t \in 1..Len(tasks) : MakeManyNext(t)
    \/ \E t \in 1..Len(tasks) : Settle(t)

SpecCount == Init /\ [][NextCount]_vars

(* options?.count !== undefined && options.count > 1, on the declared      *)
(* count.                                                                   *)
CountAboveOne(a) == a.count # <<>> /\ a.count[1] > 1

(* A declaration is an array association iff its count is given and        *)
(* greater than 1.                                                         *)
ArrayIffCountAboveOne ==
    \A d \in 1..Len(defs) : \A k \in 1..Len(defs[d].associations) :
        defs[d].associations[k].isArray
            <=> CountAboveOne(defs[d].associations[k])

(* The start of the production of an association without count or with     *)
(* count 0 or 1: one make() of the target factory is called, and the       *)
(* counter of the target advances by one.                                  *)
SingleStartsOneMake ==
    \A t \in 1..Len(tasks) :
        (t <= Len(tasks') /\ Len(tasks'[t]) > Len(tasks[t])) =>
            LET fr == tasks'[t][Len(tasks[t])]
                a == DefOf(fr).associations[fr.i]
            IN  (fr.pc = "assoc" /\ ~CountAboveOne(a)) =>
                    /\ Len(tasks'[t]) = Len(tasks[t]) + 1
                    /\ Top(tasks'[t]).op = "make"
                    /\ FacOf(Top(tasks'[t])).name = "User"
                    /\ sequences' = [sequences EXCEPT !["User"] = @ + 1]

(* The numbers an association draws from the counter of its target. *)
RECURSIVE DrawsOf(_)
DrawsOf(assocs) ==
    IF assocs = <<>> THEN 0
    ELSE (IF CountAboveOne(Head(assocs)) THEN Head(assocs).count[1] ELSE 1)
         + DrawsOf(Tail(assocs))

(* After an association without count or with count 0 or 1 the field holds *)
(* one entity of the target, not an array, and a returned make() has drawn *)
(* one number of the target for each such association.                     *)
SingleAssignsOne ==
    \A tn \in PostFrames :
        LET fr == FrameAt(tn)
            assocs == DefOf(fr).associations
            k == AssocsDone(fr)
            v == fr.ent.author
            draws == SelectSeq(fr.log,
                         LAMBDA ev : ev.step = "seq" /\ ev.d >= 1)
        IN  /\ (k # 0 /\ ~CountAboveOne(assocs[k])) =>
                  /\ v.kind = "one"
                  /\ v.items[1].type = "User"
                  /\ v.items[1].gen = "g1"
                  /\ v.items[1].id \in 0..(sequences["User"] - 1)
            /\ (k # 0 /\ CountAboveOne(assocs[k])) =>
                  /\ v.kind = "many"
                  /\ Len(v.items) = assocs[k].count[1]
            /\ Returned(fr) => Len(draws) = DrawsOf(assocs)

(* C30: an association declaration is an array association iff its count  *)
(* is defined and greater than 1; a declaration without count, with count  *)
(* 1 or with count 0 assigns a single entity, not an array, produced by    *)
(* one make() of the target factory, which advances the counter of the     *)
(* target by exactly 1.                                                    *)
SingleUnlessCountAboveOne ==
    /\ [][SingleStartsOneMake]_vars
    /\ [](ArrayIffCountAboveOne /\ SingleAssignsOne)

(* The first post of a factory whose definition declares author with       *)
(* count 0 and then with count 1 returns: author is the user 1, a single   *)
(* entity, and the counter of User is 2.                                   *)
SingleUnlessCountAboveOneWitness ==
    \E tn \in PostFrames :
        LET fr == FrameAt(tn)
            assocs == DefOf(fr).associations
        IN  /\ Returned(fr)
            /\ fr.seq = 0
            /\ Len(assocs) = 2
            /\ assocs[1].count = <<0>>
            /\ assocs[2].count = <<1>>
            /\ fr.ent.author.kind = "one"
            /\ fr.ent.author.items[1].id = 1
            /\ sequences["User"] = 2

-----------------------------------------------------------------------------
(* Concurrent productions of one key: the client starts a make() of User   *)
(* while earlier ones are suspended at a hook, and the calls interleave at *)
(* their suspension points.                                                *)

CcDefine == \E g \in {"g1", "g2"} : DefineFirst(User, g)
CcBefore == \E d \in DefsOf(User), h \in HookFns :
                Defining /\ BuilderBeforeMake(d, h)
CcAfter == \E d \in DefsOf(User) :
               /\ Defining
               /\ defs[d].afterMakeHooks = <<>>
               /\ BuilderAfterMake(d, "h1")
CcFactory == \E s \in Slots : Idle /\ Factory(User, s)
CcMake == \E s \in Slots : StartMake(s, NoOverrides)

NextConc ==
    \/ CcDefine
    \/ CcBefore
    \/ CcAfter
    \/ CcFactory
    \/ CcMake
    \/ \E t \in 1..Len(tasks) : ResolveStep(t)
    \/ \E t \in 1..Len(tasks) : BeforeHookStep(t)
    \/ \E t \in 1..Len(tasks) : OverrideStep(t)
    \/ \E t \in 1..Len(tasks) : AfterHookStep(t)
    \/ \E t \in 1..Len(tasks) : UserDone(t)
    \/ \E t \in 1..Len(tasks) : Settle(t)

SpecConc == Init /\ [][NextConc]_vars

(* The start of a make(): the call takes the number the counter holds and  *)
(* the counter is one higher when the call reaches its first suspension    *)
(* point; no other step writes the counter.                                *)
StartDrawsAtomically ==
    IF Len(tasks') = Len(tasks) + 1
    THEN /\ tasks'[Len(tasks')][1].seq = sequences["User"]
         /\ sequences' = [sequences EXCEPT !["User"] = @ + 1]
         /\ \A t \in 1..Len(tasks) : tasks'[t] = tasks[t]
    ELSE called'.op = "make" => sequences' = sequences

(* The calls in flight, in the order they started, hold increasing numbers *)
(* below the counter: no two hold the same.                                *)
InFlightDistinct ==
    \A t1, t2 \in 1..Len(tasks) :
        /\ tasks[t1][1].seq < sequences["User"]
        /\ tasks[t1][1].ent.id = tasks[t1][1].seq
        /\ t1 < t2 => tasks[t1][1].seq < tasks[t2][1].seq

(* C31: make() calls of one key that are in flight at once and interleave  *)
(* at their suspension points receive distinct sequence numbers, in the    *)
(* order the calls started: a start reads and increments the counter in    *)
(* one step, so that k starts advance the counter by exactly k.            *)
ConcurrentMakesDistinct ==
    /\ [][StartDrawsAtomically]_vars
    /\ []InFlightDistinct

(* Two make() calls are in flight, the one started first is suspended in   *)
(* its after-hook and the one started second has passed its before-hooks   *)
(* meanwhile: they hold the numbers 0 and 1.                               *)
ConcurrentMakesDistinctWitness ==
    /\ Len(tasks) = 2
    /\ tasks[1][1].seq = 0
    /\ tasks[2][1].seq = 1
    /\ tasks[1][1].pending # <<>>
    /\ tasks[1][1].pending[1].kind = "after"
    /\ tasks[2][1].pc = "after"
    /\ DefOf(tasks[2][1]).beforeMakeHooks # <<>>
    /\ sequences["User"] = 2

-----------------------------------------------------------------------------
(* Failures after the draw: a make() of User fails in its generator, in    *)
(* nested resolution, in a hook, in an association, at an undefined state  *)
(* or in the map function; the client repairs the definition or takes a    *)
(* new factory and calls make() again while it still holds the rejected    *)
(* promise.                                                                *)

(* The client holds rejected promises only. *)
OnlyRejected ==
    \A t \in 1..Len(tasks) : Len(tasks[t]) = 1 /\ tasks[t][1].pc = "rejected"

(* Every make() the client has started has resolved or rejected. *)
AllFinished ==
    \A t \in 1..Len(tasks) : Len(tasks[t]) = 1 /\ Finished(tasks[t][1])

(* The definition and the factory of User carry no cause of failure yet. *)
NoFault ==
    /\ ~Undefined(User)
    /\ defs[entityFactories["User"]] = NewDefinition(User, "g1")
    /\ \A s \in Slots : facs[s] # NoFac => facs[s].activeStates = <<>>
    /\ \A s \in Slots : facs[s] # NoFac => facs[s].mapFunction = ""

(* The client repairs after a failure: it holds a rejected promise. *)
Repairing == OnlyRejected /\ tasks # <<>>

RlDefine == \/ \E g \in {"g1", "gFail", "gBroken"} : DefineFirst(User, g)
            \/ /\ Repairing
               /\ defs[entityFactories["User"]] # NewDefinition(User, "g1")
               /\ Define(User, "g1")
RlBefore == /\ Idle
            /\ NoFault
            /\ BuilderBeforeMake(entityFactories["User"], "hFail")
RlAssoc == /\ Idle
           /\ NoFault
           /\ BuilderAssociation(entityFactories["User"], "author", Post, <<>>)
RlState == /\ Repairing
           /\ "admin" \notin DOMAIN defs[entityFactories["User"]].states
           /\ \E s \in Slots : facs[s].activeStates # <<>>
           /\ BuilderState(entityFactories["User"], "admin", "mkAdmin")
RlFactory == \E s \in Slots :
                 /\ \/ Idle /\ facs[s] = NoFac
                    \/ /\ Repairing
                       /\ \/ facs[s].definition # entityFactories["User"]
                          \/ facs[s].mapFunction # ""
                 /\ Factory(User, s)
RlEFState == \E s \in Slots :
                 /\ Idle
                 /\ NoFault
                 /\ facs[s] # NoFac
                 /\ EFState(s, "admin")
RlEFMap == \E s \in Slots :
               /\ Idle
               /\ NoFault
               /\ facs[s] # NoFac
               /\ EFMap(s, "mFail")
RlMake == \E s \in Slots : AllFinished /\ StartMake(s, NoOverrides)

NextRoll ==
    \/ RlDefine
    \/ RlBefore
    \/ RlAssoc
    \/ RlState
    \/ RlFactory
    \/ RlEFState
    \/ RlEFMap
    \/ RlMake
    \/ \E t \in 1..Len(tasks) : ResolveStep(t)
    \/ \E t \in 1..Len(tasks) : BeforeHookStep(t)
    \/ \E t \in 1..Len(tasks) : AssociationStep(t)
    \/ \E t \in 1..Len(tasks) : StateStep(t)
    \/ \E t \in 1..Len(tasks) : MapStep(t)
    \/ \E t \in 1..Len(tasks) : OverrideStep(t)
    \/ \E t \in 1..Len(tasks) : UserDone(t)
    \/ \E t \in 1..Len(tasks) : Settle(t)

SpecRoll == Init /\ [][NextRoll]_vars

(* No step lowers a counter, and the step in which a make() fails, and the *)
(* one in which its rejection reaches the caller, leave every counter as   *)
(* it is; a start takes the value of the counter and raises it by one.     *)
CounterNeverRollsBack ==
    /\ \A k \in DOMAIN sequences :
          k \in DOMAIN sequences' /\ sequences'[k] >= sequences[k]
    /\ Len(tasks') < Len(tasks) => sequences' = sequences
    /\ \A t \in 1..Len(tasks) :
          (/\ t <= Len(tasks')
           /\ Len(tasks') = Len(tasks)
           /\ tasks'[t][1].pc = "rejected"
           /\ tasks[t][1].pc # "rejected") => sequences' = sequences
    /\ Len(tasks') = Len(tasks) + 1 =>
          /\ tasks'[Len(tasks')][1].seq = sequences["User"]
          /\ sequences' = [sequences EXCEPT !["User"] = @ + 1]

(* The number of a make(), failed or not, is below the counter, and the    *)
(* calls hold increasing numbers in the order they started: the number of  *)
(* a failed call is not given again.                                        *)
FailedNumberConsumed ==
    \A t1, t2 \in 1..Len(tasks) :
        /\ tasks[t1][1].seq < sequences["User"]
        /\ t1 < t2 => tasks[t1][1].seq < tasks[t2][1].seq

(* C32: a make() that fails after it has drawn its sequence number does    *)
(* not roll the counter back: the counter stays incremented, the next      *)
(* make() of the key receives a number one higher, and the number of the   *)
(* failed call is not used again.                                          *)
FailureKeepsCounter ==
    /\ [][CounterNeverRollsBack]_vars
    /\ []FailedNumberConsumed

(* The first make() of User was rejected with number 0; the client then    *)
(* called make() again, which returned the user with number 1.             *)
FailureKeepsCounterWitness ==
    /\ Len(tasks) = 2
    /\ tasks[1][1].pc = "rejected"
    /\ tasks[1][1].seq = 0
    /\ Returned(tasks[2][1])
    /\ tasks[2][1].seq = 1
    /\ tasks[2][1].ent.id = 1
    /\ sequences["User"] = 2

-----------------------------------------------------------------------------
(* Overriding an association field: Post declares the association author   *)
(* to User, whose definition has a before-hook, and make() is called with  *)
(* and without an override of author.                                      *)

OaDefine == \/ DefineFirst(User, "g1")
            \/ ~Undefined(User) /\ DefineFirst(Post, "g1")
OaBefore == \E d \in DefsOf(User) :
                /\ Defining
                /\ defs[d].beforeMakeHooks = <<>>
                /\ BuilderBeforeMake(d, "h2")
OaAssoc == \E d \in DefsOf(Post), n \in {<<>>, <<2>>} :
               /\ Defining
               /\ defs[d].associations = <<>>
               /\ BuilderAssociation(d, "author", User, n)
OaFactory == \E s \in Slots : Idle /\ Factory(Post, s)
OaMake == \E s \in Slots :
              \E ov \in {NoOverrides, [f \in {"author"} |-> CallerObj]} :
                  Idle /\ StartMake(s, ov)

NextOvAssoc ==
    \/ OaDefine
    \/ OaBefore
    \/ OaAssoc
    \/ OaFactory
    \/ OaMake
    \/ \E t \in 1..Len(tasks) : ResolveStep(t)
    \/ \E t \in 1..Len(tasks) : BeforeHookStep(t)
    \/ \E t \in 1..Len(tasks) : AssociationStep(t)
    \/ \E t \in 1..Len(tasks) : AssociationReturn(t)
    \/ \E t \in 1..Len(tasks) : OverrideStep(t)
    \/ \E t \in 1..Len(tasks) : UserDone(t)
    \/ \E t \in 1..Len(tasks) : MakeManyNext(t)
    \/ \E t \in 1..Len(tasks) : Settle(t)

SpecOvAssoc == Init /\ [][NextOvAssoc]_vars

(* The make() frames of the client whose overrides name the field author. *)
AuthorOverridden ==
    {tn \in ClientFrames : "author" \in DOMAIN FrameAt(tn).ov}

(* The override step of the frame is done. *)
PastOverride(fr) ==
    \E n \in 1..Len(fr.log) : fr.log[n] = Event("override", "")

(* C33: an override of an association field does not suppress the          *)
(* association: the target is produced, with its generator and hooks, the  *)
(* counter of the target advances, the field holds the target until the    *)
(* override step, and from then on the override value.                     *)
OverrideKeepsAssociation ==
    /\ \A tn \in AuthorOverridden :
          LET fr == FrameAt(tn)
              assocs == DefOf(fr).associations
          IN  /\ fr.pc # "rejected"
              /\ Returned(fr) => fr.log = Prescribed(fr)
              /\ PastOverride(fr) => fr.ent.author = fr.ov.author
              /\ (assocs # <<>> /\ AssocsDone(fr) = Len(assocs)
                  /\ ~PastOverride(fr)) =>
                    /\ fr.ent.author.kind \in {"one", "many"}
                    /\ \A n \in 1..Len(fr.ent.author.items) :
                          /\ fr.ent.author.items[n].type = "User"
                          /\ fr.ent.author.items[n].gen = "g1"
                          /\ defs[entityFactories["User"]].beforeMakeHooks
                                 # <<>> =>
                                fr.ent.author.items[n].role = "hooked"
    /\ (Idle /\ ~Undefined(Post)) =>
          MapGet(sequences, "User", 0)
              = MapGet(sequences, "Post", 0)
                    * DrawsOf(defs[entityFactories["Post"]].associations)

(* A post returned by make({author: caller}) on a definition that declares *)
(* the association author: the field holds the caller's object, the log    *)
(* holds the production of the user with its before-hook, and the counter  *)
(* of User has advanced.                                                   *)
OverrideKeepsAssociationWitness ==
    \E tn \in AuthorOverridden :
        LET fr == FrameAt(tn)
        IN  /\ Returned(fr)
            /\ fr.seq = 0
            /\ fr.ent.author = CallerObj
            /\ Len(DefOf(fr).associations) = 1
            /\ ~DefOf(fr).associations[1].isArray
            /\ \E n \in 1..Len(fr.log) :
                  fr.log[n] = [Event("before", "h2") EXCEPT !.d = 1]
            /\ sequences["User"] = 1

-----------------------------------------------------------------------------
(* Termination: User and Post each declare at most one association, to     *)
(* either class, so that the declarations form no cycle, a cycle of one    *)
(* class or a cycle of both.  The promise continuations of a started call  *)
(* are run by the event loop: the steps of make() are weakly fair.         *)

CyDefine == \E c \in Classes : Defining /\ DefineFirst(c, "g1")
CyAssoc == \E d \in 1..Len(defs), c \in Classes, n \in {<<>>, <<2>>} :
               /\ Defining
               /\ defs[d].associations = <<>>
               /\ BuilderAssociation(d, "author", c, n)
CyFactory == \E c \in Classes, s \in Slots :
                 Idle /\ facs[s] = NoFac /\ Factory(c, s)
CyMake == \E s \in Slots : Idle /\ StartMake(s, NoOverrides)

CyStep ==
    \/ \E t \in 1..Len(tasks) : ResolveStep(t)
    \/ \E t \in 1..Len(tasks) : AssociationStep(t)
    \/ \E t \in 1..Len(tasks) : AssociationReturn(t)
    \/ \E t \in 1..Len(tasks) : OverrideStep(t)
    \/ \E t \in 1..Len(tasks) : MakeManyNext(t)
    \/ \E t \in 1..Len(tasks) : Settle(t)

NextCycle ==
    \/ CyDefine
    \/ CyAssoc
    \/ CyFactory
    \/ CyMake
    \/ CyStep

SpecCycle == Init /\ [][NextCycle]_vars /\ WF_vars(CyStep)

(* The classes the associations of the registered definition of a key     *)
(* name, and the keys reachable along them.                                *)
TargetClasses(name) ==
    IF name \notin DOMAIN entityFactories THEN {}
    ELSE LET assocs == defs[entityFactories[name]].associations
         IN  {getNameOfEntity(assocs[n].entityClass) : n \in 1..Len(assocs)}

RECURSIVE ReachableIn(_, _)
ReachableIn(names, fuel) ==
    IF fuel = 0 THEN names
    ELSE ReachableIn(names \cup UNION {TargetClasses(k) : k \in names},
                     fuel - 1)

ReachableFrom(name) == ReachableIn(TargetClasses(name), Cardinality(Classes))

(* A cycle of association targets can be reached from the key. *)
OnCycle(name) ==
    \E k \in ReachableFrom(name) \cup {name} : k \in ReachableFrom(k)

(* A make() of the client is in flight on a key from which no cycle can be *)
(* reached.                                                                *)
AcyclicInFlight ==
    /\ tasks # <<>>
    /\ \A t \in 1..Len(tasks) : ~OnCycle(FacOf(tasks[t][1]).name)

(* A make() of the client on a key from which a cycle can be reached has   *)
(* neither resolved nor rejected, and each frame on its stack has drawn a  *)
(* number of a key on the way.                                             *)
CyclicNeverCompletes ==
    \A t \in 1..Len(tasks) :
        OnCycle(FacOf(tasks[t][1]).name) =>
            /\ ~Finished(tasks[t][1])
            /\ \A n \in 1..Len(tasks[t]) : tasks[t][n].pc # "rejected"

(* The stack of a make() on a cycle has reached the bound of the model:   *)
(* its innermost make() is at an association whose production, one frame   *)
(* for make() and one more for makeMany(), does not fit.                   *)
CycleAtBound ==
    /\ tasks # <<>>
    /\ \E t \in 1..Len(tasks) :
          LET fr == Top(tasks[t])
          IN  /\ fr.op = "make"
              /\ Pos(fr).pc = "assoc"
              /\ Len(tasks[t])
                   + (IF DefOf(fr).associations[Pos(fr).i].isArray
                      THEN 2 ELSE 1) > MaxDepth

(* C34: make() resolves or rejects when the association declarations       *)
(* reachable from the definition form no cycle; on a cycle of association  *)
(* targets it never completes, each production starting the next one and   *)
(* drawing a further number, up to the bound of the model.                 *)
MakeTerminatesUnlessCycle ==
    /\ AcyclicInFlight ~> Idle
    /\ []CyclicNeverCompletes
    /\ (tasks # <<>> /\ ~AcyclicInFlight) ~> CycleAtBound

(* A make() of User, which is associated with itself, has MaxDepth frames  *)
(* on its stack and has drawn as many numbers of User.                     *)
MakeTerminatesUnlessCycleWitness ==
    /\ Len(tasks) = 1
    /\ Len(tasks[1]) = MaxDepth
    /\ \A n \in 1..MaxDepth :
          /\ tasks[1][n].op = "make"
          /\ tasks[1][n].fac.name = "User"
          /\ tasks[1][n].seq = n - 1
    /\ sequences["User"] = MaxDepth

(* A make() of Post, associated with an array of two users, has returned. *)
AcyclicTerminatesWitness ==
    /\ Len(tasks) = 1
    /\ Returned(tasks[1][1])
    /\ ~OnCycle("Post")
    /\ tasks[1][1].ent.author.kind = "many"

-----------------------------------------------------------------------------
(* Activation of a state the definition does not register: Post has a      *)
(* before-hook, an association, the state admin and an after-hook, each    *)
(* optional; the factory activates admin and ghost, which no definition    *)
(* registers, sets a map function and is called with and without           *)
(* overrides.                                                              *)

UdDefine == \/ DefineFirst(User, "g1")
            \/ ~Undefined(User) /\ DefineFirst(Post, "g1")
UdBefore == \E d \in DefsOf(Post) :
                /\ Defining
                /\ defs[d] = NewDefinition(Post, "g1")
                /\ BuilderBeforeMake(d, "h2")
UdAssoc == \E d \in DefsOf(Post) :
               /\ Defining
               /\ defs[d].associations = <<>>
               /\ defs[d].states = NewDefinition(Post, "g1").states
               /\ defs[d].afterMakeHooks = <<>>
               /\ BuilderAssociation(d, "author", User, <<>>)
UdState == \E d \in DefsOf(Post) :
               /\ Defining
               /\ defs[d].states = NewDefinition(Post, "g1").states
               /\ defs[d].afterMakeHooks = <<>>
               /\ BuilderState(d, "admin", "mkAdmin")
UdAfter == \E d \in DefsOf(Post) :
               /\ Defining
               /\ defs[d].afterMakeHooks = <<>>
               /\ BuilderAfterMake(d, "h1")
UdFactory == \E s \in Slots : Defining /\ Factory(Post, s)
UdEFState == \E s \in Slots, name \in {"admin", "ghost"} :
                 /\ Idle
                 /\ MapGet(sequences, "Post", 0) = 0
                 /\ facs[s] # NoFac
                 /\ facs[s].mapFunction = ""
                 /\ EFState(s, name)
UdEFMap == \E s \in Slots :
               /\ Idle
               /\ MapGet(sequences, "Post", 0) = 0
               /\ facs[s] # NoFac
               /\ facs[s].mapFunction = ""
               /\ EFMap(s, "m1")
UdMake == \E s \in Slots :
              \E ov \in {NoOverrides, [f \in {"role"} |-> "override"]} :
                  Idle /\ StartMake(s, ov)

NextUndef ==
    \/ UdDefine
    \/ UdBefore
    \/ UdAssoc
    \/ UdState
    \/ UdAfter
    \/ UdFactory
    \/ UdEFState
    \/ UdEFMap
    \/ UdMake
    \/ \E t \in 1..Len(tasks) : ResolveStep(t)
    \/ \E t \in 1..Len(tasks) : BeforeHookStep(t)
    \/ \E t \in 1..Len(tasks) : AssociationStep(t)
    \/ \E t \in 1..Len(tasks) : AssociationReturn(t)
    \/ \E t \in 1..Len(tasks) : StateStep(t)
    \/ \E t \in 1..Len(tasks) : MapStep(t)
    \/ \E t \in 1..Len(tasks) : OverrideStep(t)
    \/ \E t \in 1..Len(tasks) : AfterHookStep(t)
    \/ \E t \in 1..Len(tasks) : UserDone(t)
    \/ \E t \in 1..Len(tasks) : Settle(t)

SpecUndef == Init /\ [][NextUndef]_vars

(* The names of the activation list before the first one the definition    *)
(* does not register.                                                      *)
DefinedPrefix(fr) ==
    LET active == FacOf(fr).activeStates
        first == CHOOSE j \in UndefinedStates(fr) :
                     \A k \in UndefinedStates(fr) : j <= k
    IN  SubSeq(active, 1, first - 1)

(* The log of a make() from the draw to the last state before the first    *)
(* undefined one: no map function, no override, no after-hook.             *)
LogUpToUndefined(fr) ==
    LET plain == PrescribedLog(FacOf(fr).definition, DefinedPrefix(fr), "",
                               MaxDepth)
    IN  SubSeq(plain, 1,
               Len(plain) - 1 - 2 * Len(DefOf(fr).afterMakeHooks))

(* state() accepts a name the definition does not register. *)
StateAcceptsAnyName ==
    called.op = "state" =>
        /\ called.error = NoError
        /\ \E s \in Slots :
              /\ facs[s].activeStates # <<>>
              /\ facs[s].activeStates[Len(facs[s].activeStates)]
                     = called.arg[1]

(* C35: an activated state that the definition does not register is        *)
(* detected when make() reaches it, not when state() is called: the call   *)
(* of state() succeeds, and the make() rejects after the draw, the         *)
(* generator, every before-hook, every association and every state before  *)
(* it in the activation list, and before any map function, override or     *)
(* after-hook.                                                             *)
UndefinedStateDetectedLate ==
    /\ StateAcceptsAnyName
    /\ \A tn \in ClientFrames :
          LET fr == FrameAt(tn)
              def == DefOf(fr)
          IN  UndefinedStates(fr) # {} =>
                /\ ~Returned(fr)
                /\ fr.pc # "rejected" => IsPrefix(fr.log, LogUpToUndefined(fr))
                /\ fr.pc = "rejected" =>
                      /\ fr.err = StateNotDefined(FirstUndefined(fr),
                                                  FacOf(fr).name)
                      /\ fr.log = LogUpToUndefined(fr)
                      /\ fr.seq = sequences[FacOf(fr).name] - 1
                      /\ fr.ent.id = fr.seq
                      /\ fr.ent.trail =
                             [j \in 1..Len(DefinedPrefix(fr)) |->
                                 def.states[DefinedPrefix(fr)[j]]]
                      /\ def.associations # <<>> =>
                             fr.ent.author.kind = "one"
                      /\ (def.beforeMakeHooks # <<>>
                          /\ DefinedPrefix(fr) = <<>>) =>
                             fr.ent.role = "hooked"
                      /\ fr.ent.role \notin {"mapped", "override"}

(* A make({role: override}) of a factory with the activation list admin,   *)
(* ghost and a map function, on a definition with a before-hook, an        *)
(* association, the state admin and an after-hook, is rejected: the hook,  *)
(* the association and admin have run, nothing after them.                 *)
UndefinedStateDetectedLateWitness ==
    \E tn \in ClientFrames :
        LET fr == FrameAt(tn)
        IN  /\ fr.pc = "rejected"
            /\ FacOf(fr).activeStates = <<"admin", "ghost">>
            /\ FacOf(fr).mapFunction = "m1"
            /\ fr.ov # NoOverrides
            /\ DefOf(fr).beforeMakeHooks # <<>>
            /\ DefOf(fr).afterMakeHooks # <<>>
            /\ fr.err = StateNotDefined("ghost", "Post")
            /\ fr.ent.trail = <<"mkAdmin">>
            /\ fr.ent.role = "admin"
            /\ fr.ent.author.kind = "one"
            /\ sequences["User"] = 1

-----------------------------------------------------------------------------
(* The registry and the sequence store under every operation of the        *)
(* client: User and Post are registered and registered again, Post with a  *)
(* before-hook, then an association, then a state; factories are requested *)
(* with and without settings, also for a key not registered; entities are  *)
(* built and produced one by one and in batches, and the counters are      *)
(* reset.                                                                  *)

StDefine == \E c \in Classes :
                /\ Idle
                /\ c = Post => ~Undefined(User)
                /\ Define(c, "g1")
StBefore == \E d \in DefsOf(Post) :
                /\ Defining
                /\ defs[d] = NewDefinition(Post, "g1")
                /\ BuilderBeforeMake(d, "h2")
StAssoc == \E d \in DefsOf(Post) :
               /\ Defining
               /\ defs[d].beforeMakeHooks # <<>>
               /\ defs[d].associations = <<>>
               /\ defs[d].states = NewDefinition(Post, "g1").states
               /\ BuilderAssociation(d, "author", User, <<>>)
StState == \E d \in DefsOf(Post) :
               /\ Defining
               /\ defs[d].associations # <<>>
               /\ defs[d].states = NewDefinition(Post, "g1").states
               /\ BuilderState(d, "admin", "mkAdmin")
StFactory == \E c \in Classes, cfg \in {"", "cfg"}, s \in Slots :
                 /\ Idle
                 /\ facs[s] = NoFac
                 /\ FactoryWith(c, cfg, s)
StEFState == \E s \in Slots :
                 /\ Idle
                 /\ facs[s] # NoFac
                 /\ facs[s].activeStates = <<>>
                 /\ facs[s].mapFunction = ""
                 /\ "admin" \in DOMAIN defs[facs[s].definition].states
                 /\ EFState(s, "admin")
StEFMap == \E s \in Slots :
               /\ Idle
               /\ facs[s] # NoFac
               /\ facs[s].mapFunction = ""
               /\ EFMap(s, "m1")
StBuild == \E s \in Slots : Idle /\ called.op # "build"
                            /\ Build(s, NoOverrides)
StMake == \E s \in Slots : Idle /\ StartMake(s, NoOverrides)
StMakeMany == \E s \in Slots, n \in {0, 2} :
                  Idle /\ StartMakeMany(s, n, NoOverrides)
StReset == Idle /\ ResetSequences

NextStore ==
    \/ StDefine
    \/ StBefore
    \/ StAssoc
    \/ StState
    \/ StFactory
    \/ StEFState
    \/ StEFMap
    \/ StBuild
    \/ StMake
    \/ StMakeMany
    \/ StReset
    \/ \E t \in 1..Len(tasks) : ResolveStep(t)
    \/ \E t \in 1..Len(tasks) : BeforeHookStep(t)
    \/ \E t \in 1..Len(tasks) : AssociationStep(t)
    \/ \E t \in 1..Len(tasks) : AssociationReturn(t)
    \/ \E t \in 1..Len(tasks) : StateStep(t)
    \/ \E t \in 1..Len(tasks) : MapStep(t)
    \/ \E t \in 1..Len(tasks) : OverrideStep(t)
    \/ \E t \in 1..Len(tasks) : UserDone(t)
    \/ \E t \in 1..Len(tasks) : MakeManyNext(t)
    \/ \E t \in 1..Len(tasks) : Settle(t)

SpecStore == Init /\ [][NextStore]_vars

(* Every registered key is tracked, its entry is a definition, and every   *)
(* counter is a natural number.                                            *)
RegisteredTracked ==
    /\ DOMAIN entityFactories \subseteq DOMAIN sequences
    /\ \A k \in DOMAIN entityFactories :
          /\ entityFactories[k] \in 1..Len(defs)
          /\ defs[entityFactories[k]].entity = k
    /\ \A k \in DOMAIN sequences : sequences[k] \in Nat

(* No step removes a key of the registry or of the sequence store. *)
KeysKept ==
    /\ DOMAIN entityFactories \subseteq DOMAIN entityFactories'
    /\ DOMAIN sequences \subseteq DOMAIN sequences'

(* C37: in every reachable state every registered key is tracked in the    *)
(* sequence store and every counter is a non-negative integer, and no      *)
(* operation removes a key from the registry or from the sequence store.   *)
StoreKeysPersist ==
    /\ [][KeysKept]_vars
    /\ []RegisteredTracked

(* Both keys registered, Post twice, entities of both produced in a batch, *)
(* the counters reset and a post built after it: both keys are registered  *)
(* and tracked.                                                            *)
StoreKeysPersistWitness ==
    /\ called.op = "build"
    /\ Len(defs) = MaxDefs
    /\ Cardinality(DefsOf(Post)) = 2
    /\ DOMAIN entityFactories = {"User", "Post"}
    /\ DOMAIN sequences = {"User", "Post"}
    /\ \A k \in DOMAIN sequences : sequences[k] = 0
    /\ \E s \in Slots : facs[s] # NoFac /\ facs[s].definition < Len(defs)

(* A call of resetSequences() that found a counter above 0, or the first   *)
(* call of the client.                                                     *)
ResetStep == called'.op = "resetSequences" /\ called' # called

(* C38: resetSequences() changes only counters: the registry and every     *)
(* definition, with its generator, states, hooks and associations, are     *)
(* left as they are, and so is every EntityFactory the client holds, with  *)
(* its activation list, settings and map function.                         *)
ResetChangesOnlyCounters ==
    [][ ResetStep =>
          /\ entityFactories' = entityFactories
          /\ defs' = defs
          /\ \A s \in Slots :
                /\ facs'[s].activeStates = facs[s].activeStates
                /\ facs'[s].settings = facs[s].settings
                /\ facs'[s].mapFunction = facs[s].mapFunction
                /\ facs'[s] = facs[s]
          /\ \A c \in Classes :
                factory(entityFactories', defs', c)
                    = factory(entityFactories, defs, c)
          /\ tasks' = tasks
          /\ DOMAIN sequences' = DOMAIN sequences ]_vars

(* The counters were reset after posts were produced: the factory of Post  *)
(* created before holds its activation list, settings and map function,    *)
(* and the definition its before-hook, association and state.              *)
ResetChangesOnlyCountersWitness ==
    /\ called.op = "resetSequences"
    /\ "Post" \in DOMAIN called.arg[1]
    /\ called.arg[1]["Post"] > 0
    /\ \A k \in DOMAIN sequences : sequences[k] = 0
    /\ \E s \in Slots :
          /\ facs[s].name = "Post"
          /\ facs[s].activeStates = <<"admin">>
          /\ facs[s].settings = "cfg"
          /\ facs[s].mapFunction = "m1"
          /\ defs[facs[s].definition].beforeMakeHooks = <<"h2">>
          /\ Len(defs[facs[s].definition].associations) = 1
          /\ DOMAIN defs[facs[s].definition].states = {"admin"}

====
